---- MODULE Spec2Model ----
(***************************************************************************)
(* Case-grouped analytics over an event table: lifecycle-aware variants,   *)
(* attribute constancy classification, arrival cohorts and arrival series. *)
(*                                                                         *)
(* The event table (a pandas DataFrame) is a sequence of rows; the         *)
(* position of a row in the sequence is its index label.  A row is a       *)
(* record with the columns the scripts read; columns is the set of the     *)
(* columns the table has (a cell of an absent column is never read).  A missing value in a string  *)
(* column is NA; a timestamp cell is NaT (missing) or <<t>>.  Case         *)
(* identifiers are numbered by their rank in the sort order pandas uses    *)
(* for the group keys.                                                     *)
(*                                                                         *)
(* Every script function is a pure function of the table, so each          *)
(* specification starts from a table drawn from a bounded family and its   *)
(* actions apply one function each: args holds the call's arguments,       *)
(* locals the function's intermediate values, ret its return value.        *)
(***************************************************************************)
EXTENDS Integers, Sequences, FiniteSets, TLC

VARIABLES df, columns, pc, args, ret, locals

vars == <<df, columns, pc, args, ret, locals>>

----------------------------------------------------------------------------
(* Columns and cell values *)

CASE_ID_COLUMN == "case:concept:name"
ACTIVITY_COLUMN == "concept:name"
LIFECYCLE_COLUMN == "lifecycle:transition"
TIMESTAMP_COLUMN == "time:timestamp"
RESOURCE_COLUMN == "org:resource"

ALL_COLUMNS ==
    {CASE_ID_COLUMN, ACTIVITY_COLUMN, LIFECYCLE_COLUMN, TIMESTAMP_COLUMN, RESOURCE_COLUMN}

NA == "<NA>"
NaT == <<>>

\* pd.isna of a cell of the given column: case ids are never missing, a
\* timestamp is missing when it is NaT, any other cell when it is NA
isna(column, v) ==
    IF column = CASE_ID_COLUMN THEN FALSE
    ELSE IF column = TIMESTAMP_COLUMN THEN v = NaT
    ELSE v = NA

notna(column, v) == ~isna(column, v)

CREATE_ACTIVITY == "A_Create Application"
EXCLUSION_ACTIVITIES == {"A_Pending", "A_Cancelled", "A_Declined"}
A_CONCEPT_ACTIVITY == "A_Concept"

Row(c, a, l, t, v) ==
    [case |-> c, activity |-> a, lifecycle |-> l, ts |-> t, attr |-> v]

\* df[column] for one row
Cell(row, column) ==
    CASE column = CASE_ID_COLUMN -> row.case
      [] column = ACTIVITY_COLUMN -> row.activity
      [] column = LIFECYCLE_COLUMN -> row.lifecycle
      [] column = TIMESTAMP_COLUMN -> row.ts
      [] column = RESOURCE_COLUMN -> row.attr

\* All tables of at most n rows over a set of rows
Tables(rows, n) == UNION {[1..k -> rows] : k \in 0..n}

----------------------------------------------------------------------------
(* Sequence helpers *)

Range(s) == {s[i] : i \in 1..Len(s)}

Reverse(s) == [i \in 1..Len(s) |-> s[Len(s) + 1 - i]]

\* The subsequence of s at the positions satisfying Keep, in order
RECURSIVE SelectIdx(_, _)
SelectIdx(idx, keep) ==
    IF idx = <<>> THEN <<>>
    ELSE IF Head(idx) \in keep THEN <<Head(idx)>> \o SelectIdx(Tail(idx), keep)
    ELSE SelectIdx(Tail(idx), keep)

\* The elements of a finite set of integers in ascending order
RECURSIVE SortedSeq(_)
SortedSeq(S) ==
    IF S = {} THEN <<>>
    ELSE LET m == CHOOSE x \in S : \A y \in S : x <= y
         IN <<m>> \o SortedSeq(S \ {m})

\* The sequences that list every element of the finite set R once
RECURSIVE Orderings(_)
Orderings(R) ==
    IF R = {} THEN {<<>>}
    ELSE UNION {{<<x>> \o rest : rest \in Orderings(R \ {x})} : x \in R}

\* Lexicographic "strictly less" on integer key tuples of equal length
RECURSIVE KeyLess(_, _)
KeyLess(a, b) ==
    IF a = <<>> THEN FALSE
    ELSE IF Head(a) < Head(b) THEN TRUE
    ELSE IF Head(a) > Head(b) THEN FALSE
    ELSE KeyLess(Tail(a), Tail(b))

\* Insert x into the sorted index sequence s behind every element whose key
\* is not greater (the later element of a tie stays behind the earlier one)
RECURSIVE InsertStable(_, _, _)
InsertStable(s, x, keys) ==
    IF s = <<>> THEN <<x>>
    ELSE IF KeyLess(keys[x], keys[Head(s)]) THEN <<x>> \o s
    ELSE <<Head(s)>> \o InsertStable(Tail(s), x, keys)

\* The orders in which an unstable sort can leave the positions S with the
\* integer keys key[x]: ascending, positions of equal key in any order
RECURSIVE SortedOrders(_, _)
SortedOrders(S, key) ==
    IF S = {} THEN {<<>>}
    ELSE UNION {{<<m>> \o rest : rest \in SortedOrders(S \ {m}, key)} :
                   m \in {x \in S : \A y \in S : key[x] <= key[y]}}

\* A stable indirect sort: the positions 1..n of keys in ascending key order
RECURSIVE StableArgsortN(_, _)
StableArgsortN(keys, n) ==
    IF n = 0 THEN <<>>
    ELSE InsertStable(StableArgsortN(keys, n - 1), n, keys)

StableArgsort(keys) == StableArgsortN(keys, Len(keys))

RECURSIVE GCD(_, _)
GCD(a, b) == IF b = 0 THEN a ELSE GCD(b, a % b)

\* The number num / den as a fraction in lowest terms
Fraction(num, den) == LET g == GCD(num, den) IN <<num \div g, den \div g>>

\* The outcome of a call: the exception it raised ("" when it returned) and
\* the value it returned
Raised(error) == [error |-> error, value |-> <<>>]
Returned(value) == [error |-> "", value |-> value]

----------------------------------------------------------------------------
(* variants_lifecycle_analysis.py *)

\* The label of one event: activity and lifecycle, or the bare activity
combined_activity(row) ==
    IF notna(LIFECYCLE_COLUMN, row.lifecycle)
    THEN row.activity \o " - " \o row.lifecycle
    ELSE row.activity

\* df[LIFECYCLE_COLUMN] = pd.NA when the table has no lifecycle column
with_lifecycle_column(table, cols) ==
    IF LIFECYCLE_COLUMN \in cols THEN table
    ELSE [i \in 1..Len(table) |-> [table[i] EXCEPT !.lifecycle = NA]]

\* The code of a timestamp cell in a multi-column sort: the rank of the value
\* among the distinct present values; a missing value gets the code behind
\* all of them (na_position = "last")
TimestampCode(t, table) ==
    LET present == {table[i].ts[1] : i \in {j \in 1..Len(table) : table[j].ts # NaT}}
    IN IF t = NaT THEN Cardinality(present)
       ELSE Cardinality({u \in present : u < t[1]})

\* df.sort_values([CASE_ID_COLUMN, TIMESTAMP_COLUMN]): the row index labels
\* in sorted order (a lexsort over the column codes, which is stable)
sort_values_case_timestamp(table) ==
    StableArgsort([i \in 1..Len(table) |->
                     <<table[i].case, TimestampCode(table[i].ts, table)>>])

\* The index labels of the rows of case c
CaseRows(table, c) == {i \in 1..Len(table) : table[i].case = c}

\* The distinct case ids of a table in group-key order
GroupKeys(table) == SortedSeq({table[i].case : i \in 1..Len(table)})

\* A sequence without its repeated elements
RECURSIVE Deduplicated(_)
Deduplicated(seq) ==
    IF seq = <<>> THEN <<>>
    ELSE LET before == Deduplicated(SubSeq(seq, 1, Len(seq) - 1))
         IN IF seq[Len(seq)] \in Range(before) THEN before
            ELSE Append(before, seq[Len(seq)])

\* Mutation of GroupTraces below: a label a case repeats is kept once
GroupTracesDeduplicated(table, order, labels) ==
    LET keys == GroupKeys(table)
    IN [g \in 1..Len(keys) |->
          LET idx == SelectIdx(order, {i \in 1..Len(table) : table[i].case = keys[g]})
          IN Deduplicated([p \in 1..Len(idx) |-> labels[idx[p]]])]

\* df_sorted.groupby(CASE_ID_COLUMN)[label column].apply(tuple).tolist():
\* one tuple of labels per case, cases in group-key order, the labels of a
\* case in the order its rows have in df_sorted
GroupTraces(table, order, labels) ==
    LET keys == GroupKeys(table)
    IN [g \in 1..Len(keys) |->
          LET idx == SelectIdx(order, {i \in 1..Len(table) : table[i].case = keys[g]})
          IN [p \in 1..Len(idx) |-> labels[idx[p]]]]

\* create_combined_activity_column: the "combined_activity" column
create_combined_activity_column(table, cols) ==
    LET t == with_lifecycle_column(table, cols)
    IN [i \in 1..Len(t) |-> combined_activity(t[i])]

\* df.sort_values([CASE_ID_COLUMN]), the table having no timestamp column:
\* a single-key sort, which is pandas' default quicksort and not stable, so
\* the rows of one case may come out in any order
sort_values_case(table) ==
    SortedOrders(1..Len(table), [i \in 1..Len(table) |-> table[i].case])

\* df.sort_values(sort_cols): the orders df_sorted can have
sort_values_sort_cols(table, cols) ==
    IF TIMESTAMP_COLUMN \in cols
    THEN {sort_values_case_timestamp(table)}
    ELSE sort_values_case(table)

\* Counter(traces): the distinct traces in first-insertion order, with counts
RECURSIVE CounterItems(_)
CounterItems(traces) ==
    IF traces = <<>> THEN <<>>
    ELSE LET n == Len(traces)
             before == CounterItems(SubSeq(traces, 1, n - 1))
             last == traces[n]
         IN IF \E k \in 1..Len(before) : before[k][1] = last
            THEN [k \in 1..Len(before) |->
                    IF before[k][1] = last
                    THEN <<before[k][1], before[k][2] + 1>>
                    ELSE before[k]]
            ELSE Append(before, <<last, 1>>)

\* Mutation of sorted_by_count_reverse below: ascending sort, then reversed
sorted_by_count_then_reversed(items) ==
    LET o == StableArgsort([k \in 1..Len(items) |-> <<items[k][2]>>])
    IN Reverse([p \in 1..Len(o) |-> items[o[p]]])

\* sorted(items, key=lambda x: x[1], reverse=True): the list is reversed,
\* sorted stably in ascending order and reversed again
sorted_by_count_reverse(items) ==
    LET rev == Reverse(items)
        o == StableArgsort([k \in 1..Len(rev) |-> <<rev[k][2]>>])
    IN Reverse([p \in 1..Len(o) |-> rev[o[p]]])

\* Mutation of Counter below: a set of the traces, every count 1
CounterOfSet(traces) ==
    LET items == CounterItems(traces)
    IN [k \in 1..Len(items) |-> <<items[k][1], 1>>]

Counter(traces) == CounterItems(traces)

\* compute_variants(df): its local values and the returned variant_counts,
\* for every order the sort can leave the rows in
compute_variants(table, cols) ==
    {LET traces == GroupTraces(table, df_sorted, create_combined_activity_column(table, cols))
         counts == Counter(traces)
     IN [df_sorted |-> df_sorted, traces |-> traces, counts |-> counts,
         variant_counts |-> sorted_by_count_reverse(counts)]
     : df_sorted \in sort_values_sort_cols(table, cols)}

\* Mutation of top_n_count below: the counts of the whole list are summed
RECURSIVE top_n_count_all(_, _)
top_n_count_all(variant_counts, n) ==
    IF variant_counts = <<>> THEN 0
    ELSE Head(variant_counts)[2] + top_n_count_all(Tail(variant_counts), n)

\* sum(count for _, count in variant_counts[:n])
RECURSIVE top_n_count(_, _)
top_n_count(variant_counts, n) ==
    IF n = 0 \/ variant_counts = <<>> THEN 0
    ELSE Head(variant_counts)[2] + top_n_count(Tail(variant_counts), n - 1)

\* sum(count for _, count in variant_counts)
sum_counts(variant_counts) == top_n_count(variant_counts, Len(variant_counts))

\* Mutation of percentage below: the quotient is not multiplied by 100
percentage_unscaled(part, whole) == Fraction(part, whole)

\* (part / whole) * 100 as a fraction in lowest terms
percentage(part, whole) == Fraction(part * 100, whole)

\* variants_lifecycle_analysis.main: the figures of the report; the coverage
\* of the top variant is reported only when there are cases and variants
variants_report(variant_counts) ==
    LET total_cases == IF Len(variant_counts) # 0 THEN sum_counts(variant_counts) ELSE 0
        unique_variants == Len(variant_counts)
    IN [total_cases |-> total_cases,
        unique_variants |-> unique_variants,
        top_coverage |-> IF total_cases > 0 /\ unique_variants > 0
                         THEN <<percentage(variant_counts[1][2], total_cases)>>
                         ELSE <<>>]

\* Mutation of main_error below: a table without the case id or the activity
\* column is processed like any other
main_no_error(table, cols) == ""

\* The exception main raises before compute_variants is reached, "" if none:
\* df[CASE_ID_COLUMN] in the report of the loaded log, then row[ACTIVITY_COLUMN]
\* in create_combined_activity_column (on a table without rows apply returns
\* the empty frame, which cannot be assigned to the one new column)
main_error(table, cols) ==
    IF CASE_ID_COLUMN \notin cols THEN "KeyError: case:concept:name"
    ELSE IF ACTIVITY_COLUMN \in cols THEN ""
    ELSE IF table = <<>> THEN "ValueError: Cannot set a DataFrame with multiple columns"
    ELSE "KeyError: concept:name"

\* main: create the combined labels, compute and report the variants
ComputeVariants ==
    /\ pc = "loaded"
    /\ IF main_error(df, columns) # ""
       THEN /\ ret' = main_error(df, columns)
            /\ locals' = [operation |-> "compute_variants"]
            /\ pc' = "raised"
       ELSE /\ \E r \in compute_variants(df, columns) :
                  /\ locals' = [df_sorted |-> r.df_sorted, traces |-> r.traces,
                                report |-> variants_report(r.variant_counts)]
                  /\ ret' = r.variant_counts
            /\ pc' = "compute_variants"
    /\ UNCHANGED <<df, columns, args>>

----------------------------------------------------------------------------
(* print_most_used_variants.py *)

\* pm4py.get_variants(df): variant (tuple of activities) -> count, built from
\* the per-case traces of bare activity labels
get_variants(table) ==
    LET df_sorted == sort_values_case_timestamp(table)
        traces == GroupTraces(table, df_sorted,
                              [i \in 1..Len(table) |-> table[i].activity])
    IN [traces |-> traces, variants |-> Counter(traces)]

COVERAGE_TOP_NS == {1, 5, 10, 20, 50, 100}
TAIL_THRESHOLDS == {5, 10, 20}

\* Mutation of top_variant_error below: the top variant is read only when
\* there is one
top_variant_guarded(variant_counts, total_cases) == ""

\* variant_counts[0][1] / total_cases in the report of the top variant: the
\* exception it raises, "" if none
top_variant_error(variant_counts, total_cases) ==
    IF variant_counts = <<>> THEN "IndexError: list index out of range"
    ELSE IF total_cases = 0 THEN "ZeroDivisionError: division by zero"
    ELSE ""

\* Mutation of summary_statistics below: the singletons and the tail are
\* counted among the top 20 variants that were printed
summary_statistics_of_top_n(variant_counts, total_cases) ==
    LET top == SubSeq(variant_counts, 1, IF Len(variant_counts) < 20 THEN Len(variant_counts)
                                         ELSE 20)
    IN IF variant_counts = <<>>
       THEN [coverage |-> <<>>, unique_only |-> 0, tail_count |-> <<>>]
       ELSE [coverage |-> [n \in COVERAGE_TOP_NS |->
                              percentage(top_n_count(variant_counts, n), total_cases)],
             unique_only |-> Cardinality({k \in 1..Len(top) : top[k][2] = 1}),
             tail_count |-> [threshold \in TAIL_THRESHOLDS |->
                                Cardinality({k \in 1..Len(top) : top[k][2] <= threshold})]]

\* The summary statistics, computed when there are variants
summary_statistics(variant_counts, total_cases) ==
    IF variant_counts = <<>>
    THEN [coverage |-> <<>>, unique_only |-> 0, tail_count |-> <<>>]
    ELSE [coverage |-> [n \in COVERAGE_TOP_NS |->
                           percentage(top_n_count(variant_counts, n), total_cases)],
          unique_only |-> Cardinality({k \in 1..Len(variant_counts) :
                                          variant_counts[k][2] = 1}),
          tail_count |-> [threshold \in TAIL_THRESHOLDS |->
                             Cardinality({k \in 1..Len(variant_counts) :
                                             variant_counts[k][2] <= threshold})]]

\* main: variant_counts = list(variants.items()); sort by count, descending;
\* report the totals, the top variant and the summary statistics
PrintMostUsedVariants ==
    /\ pc = "loaded"
    /\ LET v == get_variants(df)
           variant_counts == sorted_by_count_reverse(v.variants)
           total_cases == sum_counts(variant_counts)
       IN IF top_variant_error(variant_counts, total_cases) # ""
          THEN /\ ret' = top_variant_error(variant_counts, total_cases)
               /\ locals' = [operation |-> "print_most_used_variants"]
               /\ pc' = "raised"
          ELSE /\ ret' = variant_counts
               /\ locals' = [traces |-> v.traces,
                             report |-> [total_cases |-> total_cases,
                                         unique_variants |-> Len(variant_counts),
                                         top_coverage |->
                                            <<percentage(variant_counts[1][2], total_cases)>>],
                             statistics |-> summary_statistics(variant_counts, total_cases)]
               /\ pc' = "print_most_used_variants"
    /\ UNCHANGED <<df, columns, args>>

----------------------------------------------------------------------------
(* check_constant_attributes.py and Visualization/attribute_visualizations.py *)

CASE_LEVEL_THRESHOLD == 80
MOSTLY_CASE_THRESHOLD == 50

\* df.groupby(case_id_col)[column]: the values of the column in the rows of
\* one case, in row order
GroupSeries(table, column, c) ==
    LET idx == SelectIdx([i \in 1..Len(table) |-> i], CaseRows(table, c))
    IN [p \in 1..Len(idx) |-> Cell(table[idx[p]], column)]

\* series.dropna()
RECURSIVE dropna(_, _)
dropna(series, column) ==
    IF series = <<>> THEN <<>>
    ELSE IF isna(column, Head(series)) THEN dropna(Tail(series), column)
    ELSE <<Head(series)>> \o dropna(Tail(series), column)

\* series.nunique()
nunique(series) == Cardinality(Range(series))

\* Mutation of is_constant_in_case below: missing values count as a value
is_constant_in_case_with_nulls(series, column) == nunique(series) <= 1

\* check_constant_attributes.is_constant_in_case
is_constant_in_case(series, column) ==
    LET non_null == dropna(series, column)
    IN IF Len(non_null) = 0 THEN TRUE
       ELSE IF Len(non_null) = 1 THEN TRUE
       ELSE nunique(non_null) <= 1

\* classify_attribute_level.is_constant_in_case (the nested function)
classify_is_constant_in_case(series, column) ==
    LET non_null == dropna(series, column)
    IN IF Len(non_null) = 0 THEN TRUE
       ELSE IF Len(non_null) = 1 THEN TRUE
       ELSE nunique(non_null) <= 1

\* (constant / total) * 100 if total > 0 else 0.0
percent_of(constant, total) ==
    IF total > 0 THEN Fraction(constant * 100, total) ELSE <<0, 1>>

\* percent >= threshold on fractions
PercentAtLeast(percent, threshold) == percent[1] >= threshold * percent[2]

\* is_constant_per_case.sum()
CountTrue(flags) == Cardinality({g \in 1..Len(flags) : flags[g]})

\* Mutation of analyze_groups and of classify_groups below: cases without a
\* value are not counted
analyze_groups_with_value(table, column) ==
    LET all == GroupKeys(table)
        keys == SelectIdx(all, {c \in Range(all) :
                                  dropna(GroupSeries(table, column, c), column) # <<>>})
    IN [g \in 1..Len(keys) |-> is_constant_in_case(GroupSeries(table, column, keys[g]), column)]

\* analyze_attribute_constancy: case_groups.apply(is_constant_in_case)
analyze_groups(table, column) ==
    LET keys == GroupKeys(table)
    IN [g \in 1..Len(keys) |-> is_constant_in_case(GroupSeries(table, column, keys[g]), column)]

\* classify_attribute_level: case_groups.apply(is_constant_in_case)
classify_groups(table, column) ==
    LET keys == GroupKeys(table)
    IN [g \in 1..Len(keys) |->
          classify_is_constant_in_case(GroupSeries(table, column, keys[g]), column)]

\* Mutation of analyze_is_case_id below: no special case for the case id
never_case_id(column) == FALSE

\* analyze_attribute_constancy: column == CASE_ID_COL
analyze_is_case_id(column) == column = CASE_ID_COLUMN

analyze_attribute_constancy(table, column) ==
    IF analyze_is_case_id(column)
    THEN [is_constant |-> FALSE,
          percent_constant |-> <<0, 1>>,
          total_cases |-> Len(GroupKeys(table)),
          constant_cases |-> 0,
          is_constant_per_case |-> <<>>]
    ELSE LET is_constant_per_case == analyze_groups(table, column)
             total_cases == Len(is_constant_per_case)
             constant_cases == CountTrue(is_constant_per_case)
             percent_constant == percent_of(constant_cases, total_cases)
         IN [is_constant |-> (percent_constant = <<100, 1>>),
             percent_constant |-> percent_constant,
             total_cases |-> total_cases,
             constant_cases |-> constant_cases,
             is_constant_per_case |-> is_constant_per_case]

\* Mutation of level_of below: the threshold itself is not case-level
level_of_strict(percent_constant) ==
    IF percent_constant[1] > CASE_LEVEL_THRESHOLD * percent_constant[2]
    THEN [level |-> "case", is_case_level |-> TRUE]
    ELSE IF PercentAtLeast(percent_constant, MOSTLY_CASE_THRESHOLD)
    THEN [level |-> "mostly_case", is_case_level |-> TRUE]
    ELSE [level |-> "event", is_case_level |-> FALSE]

\* classify_attribute_level: classify based on threshold
level_of(percent_constant) ==
    IF PercentAtLeast(percent_constant, CASE_LEVEL_THRESHOLD)
    THEN [level |-> "case", is_case_level |-> TRUE]
    ELSE IF PercentAtLeast(percent_constant, MOSTLY_CASE_THRESHOLD)
    THEN [level |-> "mostly_case", is_case_level |-> TRUE]
    ELSE [level |-> "event", is_case_level |-> FALSE]

classify_attribute_level(table, column, case_id_col) ==
    IF column = case_id_col
    THEN [level |-> "event", percent_constant |-> <<0, 1>>, is_case_level |-> FALSE,
          is_constant_per_case |-> <<>>]
    ELSE LET is_constant_per_case == classify_groups(table, column)
             total_cases == Len(is_constant_per_case)
             num_cases_constant == CountTrue(is_constant_per_case)
             percent_constant == percent_of(num_cases_constant, total_cases)
             l == level_of(percent_constant)
         IN [level |-> l.level, percent_constant |-> percent_constant,
             is_case_level |-> l.is_case_level,
             is_constant_per_case |-> is_constant_per_case]

\* Mutation of first_non_null below: the first value, null or not
first_value(series, column) ==
    IF series # <<>> /\ notna(column, series[1]) THEN series[1] ELSE NA

\* get_case_level_values: x.dropna().iloc[0] if x.dropna().notna().any()
\* else None
first_non_null(series, column) ==
    LET non_null == dropna(series, column)
    IN IF non_null # <<>> THEN non_null[1] ELSE NA

\* get_case_level_values: df.groupby(case_id_col)[column].apply(...), a
\* series indexed by the case ids
get_case_level_values(table, column) ==
    [c \in Range(GroupKeys(table)) |-> first_non_null(GroupSeries(table, column, c), column)]

\* The columns whose case-level values the plots ask for
CaseLevelColumns == {RESOURCE_COLUMN, ACTIVITY_COLUMN}

\* plot_case_level_categorical and the other case-level plots:
\* case_values = get_case_level_values(df, column, case_id_col)
GetCaseLevelValues(column) ==
    /\ pc = "loaded"
    /\ ret' = get_case_level_values(df, column)
    /\ locals' = [case_values |-> get_case_level_values(df, column)]
    /\ args' = [column |-> column]
    /\ pc' = "get_case_level_values"
    /\ UNCHANGED <<df, columns>>

AttributeColumns == {CASE_ID_COLUMN, RESOURCE_COLUMN}

\* check_constant_attributes.main: one column of the loop over df.columns
AnalyzeAttributeConstancy(column) ==
    /\ pc = "loaded"
    /\ LET r == analyze_attribute_constancy(df, column)
       IN /\ ret' = [is_constant |-> r.is_constant,
                     percent_constant |-> r.percent_constant,
                     total_cases |-> r.total_cases,
                     constant_cases |-> r.constant_cases]
          /\ locals' = [is_constant_per_case |-> r.is_constant_per_case]
    /\ args' = [column |-> column]
    /\ pc' = "analyze_attribute_constancy"
    /\ UNCHANGED <<df, columns>>

\* Mutation of classify_error below: the columns are looked up before the
\* case id is recognised
classify_error_columns_first(cols, column, case_id_col) ==
    IF case_id_col \notin cols THEN "KeyError: " \o case_id_col
    ELSE IF column \notin cols THEN "KeyError: Column not found: " \o column
    ELSE ""

\* The exception classify_attribute_level raises, "" if none: the case id
\* column is answered before the table is read; df.groupby(case_id_col) and
\* the selection of the column raise KeyError for a column the table lacks
classify_error(cols, column, case_id_col) ==
    IF column = case_id_col THEN ""
    ELSE IF case_id_col \notin cols THEN "KeyError: " \o case_id_col
    ELSE IF column \notin cols THEN "KeyError: Column not found: " \o column
    ELSE ""

\* classify_attribute_level(df, column) with the default case_id_col
ClassifyAttributeLevel(column) ==
    /\ pc = "loaded"
    /\ IF classify_error(columns, column, CASE_ID_COLUMN) # ""
       THEN /\ ret' = classify_error(columns, column, CASE_ID_COLUMN)
            /\ locals' = [operation |-> "classify_attribute_level"]
            /\ pc' = "raised"
       ELSE /\ LET r == classify_attribute_level(df, column, CASE_ID_COLUMN)
               IN /\ ret' = [level |-> r.level, percent_constant |-> r.percent_constant,
                             is_case_level |-> r.is_case_level]
                  /\ locals' = [is_constant_per_case |-> r.is_constant_per_case]
            /\ pc' = "classify_attribute_level"
    /\ args' = [column |-> column]
    /\ UNCHANGED <<df, columns>>

\* attribute_visualizations.main: the classification of one column of the
\* loop over df.columns (the case id is handled before the classifier)
AttributeVisualizationsMain(column) ==
    /\ pc = "loaded"
    /\ IF column = "case:concept:name"
       THEN /\ ret' = [level |-> "event", percent_constant |-> <<0, 1>>,
                       is_case_level |-> FALSE]
            /\ locals' = [is_constant_per_case |-> <<>>]
       ELSE LET r == classify_attribute_level(df, column, CASE_ID_COLUMN)
            IN /\ ret' = [level |-> r.level, percent_constant |-> r.percent_constant,
                          is_case_level |-> r.is_case_level]
               /\ locals' = [is_constant_per_case |-> r.is_constant_per_case]
    /\ args' = [column |-> column]
    /\ pc' = "attribute_visualizations_main"
    /\ UNCHANGED <<df, columns>>

----------------------------------------------------------------------------
(* create_application_arrival_average.py: the cohort of active cases *)

DEFAULT_CREATE_ACTIVITY == "A_Create Application"
DEFAULT_EXCLUDED_STATES == {"A_Pending", "A_Cancelled", "A_Declined"}

\* df.groupby(CASE_ID_COL)[ACTIVITY_COL].agg(set), for one case
case_activity_set(table, c) == Range(GroupSeries(table, ACTIVITY_COLUMN, c))

cases_with_create(table, create_activity) ==
    {c \in Range(GroupKeys(table)) : create_activity \in case_activity_set(table, c)}

\* Mutation of cases_with_excluded below: every excluded state is required
cases_with_all_excluded(table, excluded_states_set) ==
    {c \in Range(GroupKeys(table)) : excluded_states_set \subseteq case_activity_set(table, c)}

cases_with_excluded(table, excluded_states_set) ==
    {c \in Range(GroupKeys(table)) :
        excluded_states_set \cap case_activity_set(table, c) # {}}

\* df[df[CASE_ID_COL].isin(eligible_cases)]: the index labels of the kept rows
rows_isin(table, case_ids) ==
    SelectIdx([i \in 1..Len(table) |-> i], {i \in 1..Len(table) : table[i].case \in case_ids})

select_active_create_cases(table, create_activity, excluded_states) ==
    LET eligible_cases ==
            cases_with_create(table, create_activity)
                \ cases_with_excluded(table, excluded_states)
    IN [eligible_cases |-> eligible_cases,
        filtered_df |-> IF eligible_cases = {} THEN <<>>
                        ELSE rows_isin(table, eligible_cases)]

SelectActiveCreateCases(create_activity, excluded_states) ==
    /\ pc = "loaded"
    /\ LET r == select_active_create_cases(df, create_activity, excluded_states)
       IN /\ locals' = [eligible_cases |-> r.eligible_cases]
          /\ ret' = [p \in 1..Len(r.filtered_df) |-> df[r.filtered_df[p]]]
    /\ args' = [create_activity |-> create_activity, excluded_states |-> excluded_states]
    /\ pc' = "select_active_create_cases"
    /\ UNCHANGED <<df, columns>>

----------------------------------------------------------------------------
(* pending_case_arrival_analysis.py: the cohort of open cases *)

\* series.unique(): the distinct values in order of first appearance
RECURSIVE unique(_)
unique(series) ==
    IF series = <<>> THEN <<>>
    ELSE LET n == Len(series)
             before == unique(SubSeq(series, 1, n - 1))
         IN IF series[n] \in Range(before) THEN before ELSE Append(before, series[n])

\* df.loc[mask, CASE_ID_KEY] for the rows whose activity is in the given set
case_ids_where_activity_in(table, activities) ==
    LET idx == SelectIdx([i \in 1..Len(table) |-> i],
                         {i \in 1..Len(table) : table[i].activity \in activities})
    IN [p \in 1..Len(idx) |-> table[idx[p]].case]

\* Mutation of index_difference below: the symmetric difference, which also
\* keeps the values of b not in a
index_symmetric_difference(a, b) ==
    SortedSeq((Range(a) \ Range(b)) \cup (Range(b) \ Range(a)))

\* pd.Index(a).difference(b): the values of a not in b, sorted
index_difference(a, b) == SortedSeq(Range(a) \ Range(b))

select_open_cases(table) ==
    LET create_cases == unique(case_ids_where_activity_in(table, {CREATE_ACTIVITY}))
        excluded_cases == unique(case_ids_where_activity_in(table, EXCLUSION_ACTIVITIES))
    IN index_difference(create_cases, excluded_cases)

SelectOpenCases ==
    /\ pc = "loaded"
    /\ ret' = select_open_cases(df)
    /\ locals' = <<>>
    /\ args' = [create_activity |-> CREATE_ACTIVITY, excluded_states |-> EXCLUSION_ACTIVITIES]
    /\ pc' = "select_open_cases"
    /\ UNCHANGED <<df, columns>>

----------------------------------------------------------------------------
(* pending_case_arrival_analysis.py: the arrival dataframe *)

\* Mutation of sort_values_timestamp below: na_position="first"
sort_values_timestamp_na_first(tss) ==
    LET present == {i \in 1..Len(tss) : tss[i] # NaT}
        missing == SortedSeq({i \in 1..Len(tss) : tss[i] = NaT})
    IN {missing \o f : f \in SortedOrders(present, [i \in present |-> tss[i][1]])}

\* sort_values(TIMESTAMP_KEY) of a frame with the timestamp cells tss: the
\* positions in sorted order.  The single-key sort is numpy's quicksort, which
\* is not stable: rows of equal timestamp may come out in any order.  Rows
\* without a timestamp are appended behind the others in their original order.
sort_values_timestamp(tss) ==
    LET present == {i \in 1..Len(tss) : tss[i] # NaT}
        missing == SortedSeq({i \in 1..Len(tss) : tss[i] = NaT})
    IN {f \o missing : f \in SortedOrders(present, [i \in present |-> tss[i][1]])}

\* Mutation of sort_relevant and sort_arrival below: the frame is not sorted
not_sorted(tss) == {[i \in 1..Len(tss) |-> i]}

\* relevant.sort_values(TIMESTAMP_KEY)
sort_relevant(tss) == sort_values_timestamp(tss)

\* arrival_df.sort_values(TIMESTAMP_KEY)
sort_arrival(tss) == sort_values_timestamp(tss)

\* The first non-null cell of a column of timestamps, NaT when there is none
RECURSIVE first_notna(_)
first_notna(tss) ==
    IF tss = <<>> THEN NaT
    ELSE IF Head(tss) # NaT THEN Head(tss)
    ELSE first_notna(Tail(tss))

\* frame.groupby(CASE_ID_KEY, as_index=False).first(), columns case id and
\* timestamp: one row per case in group-key order, each column holding the
\* first non-null cell of the group
groupby_first(frame) ==
    LET keys == GroupKeys(frame)
    IN [g \in 1..Len(keys) |->
          [case |-> keys[g],
           ts |-> first_notna(GroupSeries(frame, TIMESTAMP_COLUMN, keys[g]))]]

\* build_arrival_dataframe(df, case_ids): the set of frames it can return
build_arrival_dataframe(table, case_ids) ==
    LET idx == SelectIdx([i \in 1..Len(table) |-> i],
                         {i \in 1..Len(table) :
                             table[i].case \in case_ids /\ table[i].activity = CREATE_ACTIVITY})
        relevant == [p \in 1..Len(idx) |-> table[idx[p]]]
    IN IF relevant = <<>> THEN {<<>>}
       ELSE UNION {
              LET first_events == groupby_first([p \in 1..Len(o) |-> relevant[o[p]]])
              IN {[p \in 1..Len(o2) |-> first_events[o2[p]]] :
                    o2 \in sort_arrival([k \in 1..Len(first_events) |-> first_events[k].ts])}
              : o \in sort_relevant([p \in 1..Len(relevant) |-> relevant[p].ts])}

\* main: open_cases = select_open_cases(df), or a cohort chosen by the caller
BuildArrivalDataframe(case_ids) ==
    /\ pc = "loaded"
    /\ ret' \in build_arrival_dataframe(df, case_ids)
    /\ locals' = <<>>
    /\ args' = [case_ids |-> case_ids]
    /\ pc' = "build_arrival_dataframe"
    /\ UNCHANGED <<df, columns>>

----------------------------------------------------------------------------
(* create_application_arrival_average.py and
   Visualization/case_arrival_rate_visualization.py: the arrival series *)

\* extract_create_events: the create events, sorted by timestamp
extract_create_events(frame, create_activity) ==
    LET idx == SelectIdx([i \in 1..Len(frame) |-> i],
                         {i \in 1..Len(frame) : frame[i].activity = create_activity})
        create_df == [p \in 1..Len(idx) |-> frame[idx[p]]]
    IN {[p \in 1..Len(o) |-> create_df[o[p]]] :
          o \in sort_values_timestamp([p \in 1..Len(create_df) |-> create_df[p].ts])}

\* The earliest timestamp of a column of timestamps, NaT when there is none
earliest(tss) ==
    LET present == {i \in 1..Len(tss) : tss[i] # NaT}
    IN IF present = {} THEN NaT
       ELSE tss[CHOOSE i \in present : \A j \in present : tss[i][1] <= tss[j][1]]

\* case_statistics.get_cases_description: per case, the start time of the case
get_cases_description(frame) ==
    LET keys == GroupKeys(frame)
    IN [g \in 1..Len(keys) |->
          [case |-> keys[g],
           ts |-> earliest(GroupSeries(frame, TIMESTAMP_COLUMN, keys[g]))]]

\* arrival_series.sort_values()
series_sort_values(tss) == sort_values_timestamp(tss)

\* compute_arrival_series(df): the set of series it can return
compute_arrival_series(frame) ==
    IF frame = <<>> THEN {<<>>}
    ELSE LET cases_description == get_cases_description(frame)
         IN IF cases_description = <<>> THEN {<<>>}
            ELSE {[p \in 1..Len(o) |-> cases_description[o[p]]] :
                    o \in series_sort_values([k \in 1..Len(cases_description) |->
                                                cases_description[k].ts])}

\* compute_case_arrival_times(df): the set of series it can return
compute_case_arrival_times(frame) ==
    LET cases_info == get_cases_description(frame)
    IN IF cases_info = <<>> THEN {<<>>}
       ELSE {[p \in 1..Len(o) |-> cases_info[o[p]]] :
               o \in series_sort_values([k \in 1..Len(cases_info) |-> cases_info[k].ts])}

\* create_application_arrival_average.main up to the arrival series, with the
\* default create activity and excluded states
ComputeArrivalSeries ==
    /\ pc = "loaded"
    /\ LET active == select_active_create_cases(df, DEFAULT_CREATE_ACTIVITY,
                                                DEFAULT_EXCLUDED_STATES).filtered_df
           active_df == [p \in 1..Len(active) |-> df[active[p]]]
       IN IF active_df = <<>> THEN ret' = <<>>
          ELSE \E create_events_df \in extract_create_events(active_df, DEFAULT_CREATE_ACTIVITY) :
                  IF create_events_df = <<>> THEN ret' = <<>>
                  ELSE ret' \in compute_arrival_series(create_events_df)
    /\ locals' = <<>>
    /\ args' = [create_activity |-> DEFAULT_CREATE_ACTIVITY,
                excluded_states |-> DEFAULT_EXCLUDED_STATES]
    /\ pc' = "compute_arrival_series"
    /\ UNCHANGED <<df, columns>>

\* case_arrival_rate_visualization.main up to the arrival series
ComputeCaseArrivalTimes ==
    /\ pc = "loaded"
    /\ ret' \in compute_case_arrival_times(df)
    /\ locals' = <<>>
    /\ args' = <<>>
    /\ pc' = "compute_case_arrival_times"
    /\ UNCHANGED <<df, columns>>

----------------------------------------------------------------------------
(* The average inter-arrival time *)

\* The present timestamps of a column as numbers, ascending
sorted_timestamps(tss) ==
    LET vals == dropna(tss, TIMESTAMP_COLUMN)
        o == StableArgsort([k \in 1..Len(vals) |-> <<vals[k][1]>>])
    IN [p \in 1..Len(o) |-> vals[o[p]][1]]

\* pm4py.get_case_arrival_average: the average time in seconds between the
\* starts of consecutive cases, (last - first) / (count - 1) over the start
\* times of the cases, 0.0 with fewer than two of them
get_case_arrival_average(frame) ==
    LET starts == get_cases_description(frame)
        s == sorted_timestamps([k \in 1..Len(starts) |-> starts[k].ts])
        count == Len(s)
    IN IF count < 2 THEN Fraction(0, 1)
       ELSE Fraction(s[count] - s[1], count - 1)

\* float("nan")
NaN == <<0, 0>>

\* Mutation of compute_pm4py_arrival_average below: a frame of up to two
\* rows is taken for empty
compute_pm4py_arrival_average_guard_two(arrival_df) ==
    IF Len(arrival_df) <= 2 THEN Fraction(0, 1)
    ELSE get_case_arrival_average(arrival_df)

\* Mutation of compute_pm4py_arrival_average below: no number for an empty
\* frame
compute_pm4py_arrival_average_nan_on_empty(arrival_df) ==
    IF arrival_df = <<>> THEN NaN
    ELSE get_case_arrival_average(arrival_df)

\* compute_pm4py_arrival_average(arrival_df)
compute_pm4py_arrival_average(arrival_df) ==
    IF arrival_df = <<>> THEN Fraction(0, 1)
    ELSE get_case_arrival_average(arrival_df)

\* compute_case_arrival_average(df)
compute_case_arrival_average(frame) == get_case_arrival_average(frame)

\* compute_pm4py_arrival_average applied to the arrival dataframe of the open
\* cases (main calls it on the frames that are not empty)
ComputePm4pyArrivalAverage ==
    /\ pc = "loaded"
    /\ \E arrivals_df \in build_arrival_dataframe(df, Range(select_open_cases(df))) :
          /\ locals' = [arrivals_df |-> arrivals_df]
          /\ ret' = compute_pm4py_arrival_average(arrivals_df)
    /\ args' = <<>>
    /\ pc' = "compute_pm4py_arrival_average"
    /\ UNCHANGED <<df, columns>>

\* create_application_arrival_average.main up to the average: it exits
\* without one when no case or no create event is left
ComputeCaseArrivalAverage ==
    /\ pc = "loaded"
    /\ LET active == select_active_create_cases(df, DEFAULT_CREATE_ACTIVITY,
                                                DEFAULT_EXCLUDED_STATES).filtered_df
           active_df == [p \in 1..Len(active) |-> df[active[p]]]
       IN IF active_df = <<>>
          THEN ret' = <<>> /\ locals' = [exited |-> TRUE, create_events_df |-> <<>>]
          ELSE \E create_events_df \in extract_create_events(active_df, DEFAULT_CREATE_ACTIVITY) :
                  IF create_events_df = <<>>
                  THEN ret' = <<>> /\ locals' = [exited |-> TRUE, create_events_df |-> <<>>]
                  ELSE /\ ret' = compute_case_arrival_average(create_events_df)
                       /\ locals' = [exited |-> FALSE, create_events_df |-> create_events_df]
    /\ args' = <<>>
    /\ pc' = "compute_case_arrival_average"
    /\ UNCHANGED <<df, columns>>

----------------------------------------------------------------------------
(* Gap statistics and arrival counts per time bucket *)

\* The sum of a sequence of numbers
RECURSIVE Sum(_)
Sum(xs) == IF xs = <<>> THEN 0 ELSE Head(xs) + Sum(Tail(xs))

\* Mutation of diffs below: the time of each arrival since the first one
diffs_from_first(tss) ==
    LET s == sorted_timestamps(tss)
    IN [k \in 1..(Len(s) - 1) |-> s[k + 1] - s[1]]

\* arrival_series.sort_values().diff().dropna(): the gaps between consecutive
\* arrivals in time order, in seconds
diffs(tss) ==
    LET s == sorted_timestamps(tss)
    IN [k \in 1..(Len(s) - 1) |-> s[k + 1] - s[k]]

\* Mutation of describe below: the gaps are not converted to hours
describe_in_seconds(gaps) ==
    LET n == Len(gaps)
        o == StableArgsort([k \in 1..n |-> <<gaps[k]>>])
        sorted == [p \in 1..n |-> gaps[o[p]]]
    IN IF n = 0
       THEN [count |-> 0, mean |-> NaN, min |-> NaN, median |-> NaN, max |-> NaN]
       ELSE [count |-> n,
             mean |-> Fraction(Sum(gaps), n),
             min |-> Fraction(sorted[1], 1),
             median |-> IF n % 2 = 1 THEN Fraction(sorted[(n + 1) \div 2], 1)
                        ELSE Fraction(sorted[n \div 2] + sorted[n \div 2 + 1], 2),
             max |-> Fraction(sorted[n], 1)]

\* Series.describe() of the gaps in hours: count, mean, min, median and max
\* (the standard deviation and the quartiles are not modelled); the figures
\* of an empty series are NaN
describe(gaps) ==
    LET n == Len(gaps)
        o == StableArgsort([k \in 1..n |-> <<gaps[k]>>])
        sorted == [p \in 1..n |-> gaps[o[p]]]
    IN IF n = 0
       THEN [count |-> 0, mean |-> NaN, min |-> NaN, median |-> NaN, max |-> NaN]
       ELSE [count |-> n,
             mean |-> Fraction(Sum(gaps), n * 3600),
             min |-> Fraction(sorted[1], 3600),
             median |-> IF n % 2 = 1 THEN Fraction(sorted[(n + 1) \div 2], 3600)
                        ELSE Fraction(sorted[n \div 2] + sorted[n \div 2 + 1], 2 * 3600),
             max |-> Fraction(sorted[n], 3600)]

\* Mutation of too_few_arrivals below: one arrival is taken to have gaps
too_few_arrivals_below_one(arrival_series) == Len(arrival_series) < 1

\* if len(arrival_series) < 2
too_few_arrivals(arrival_series) == Len(arrival_series) < 2

\* describe_arrival_times(arrival_series): the empty series (<<>>) with fewer
\* than two arrivals
describe_arrival_times(arrival_series) ==
    IF too_few_arrivals(arrival_series) THEN <<>>
    ELSE describe(diffs([k \in 1..Len(arrival_series) |-> arrival_series[k].ts]))

\* The seconds of a day and of a week; timestamps are seconds since the
\* epoch, 1970-01-01 00:00, a Thursday
DAY == 86400
WEEK == 7 * DAY

\* The first Sunday 00:00 of the epoch, 1970-01-04
FIRST_SUNDAY == 3 * DAY

\* The number of seconds of a frequency (pandas offset alias) of fixed width
tick_width(freq) ==
    CASE freq = "s" -> 1
      [] freq = "2s" -> 2
      [] freq = "12h" -> DAY \div 2
      [] freq = "D" -> DAY

\* Timestamp.normalize(): midnight of the day of t
normalize(t) == (t \div DAY) * DAY

\* The Sunday 00:00 that labels the week of t: the first one at or after the
\* midnight of the day of t
week_label(t) == normalize(t) + ((FIRST_SUNDAY + WEEK - (normalize(t) % WEEK)) % WEEK)

\* Mutation of resample_tick below: closed="right", a bucket is (left, left + width]
resample_tick_right_closed(tss, width) ==
    LET s == sorted_timestamps(tss)
        first == (s[1] \div width) * width
        last == (s[Len(s)] \div width) * width
    IN [b \in 1..((last - first) \div width + 1) |->
          LET left == first + (b - 1) * width
          IN [bucket |-> left,
              new_cases |-> Cardinality({k \in 1..Len(s) :
                                            left < s[k] /\ s[k] <= left + width})]]

\* resample of a tick frequency (closed="left", label="left"): the buckets of
\* the given width from the one of the earliest to the one of the latest
\* timestamp, each with its left edge (a multiple of the width) and the
\* number of rows in [left, left + width)
resample_tick(tss, width) ==
    LET s == sorted_timestamps(tss)
        first == (s[1] \div width) * width
        last == (s[Len(s)] \div width) * width
    IN [b \in 1..((last - first) \div width + 1) |->
          LET left == first + (b - 1) * width
          IN [bucket |-> left,
              new_cases |-> Cardinality({k \in 1..Len(s) :
                                            left <= s[k] /\ s[k] < left + width})]]

\* Mutation of resample_weekly below: the buckets without arrivals are left out
resample_weekly_without_gaps(tss) ==
    LET s == sorted_timestamps(tss)
        labels == SortedSeq({week_label(s[k]) : k \in 1..Len(s)})
    IN [b \in 1..Len(labels) |->
          [bucket |-> labels[b],
           new_cases |-> Cardinality({k \in 1..Len(s) : week_label(s[k]) = labels[b]})]]

\* resample of the frequency "W" (weeks ending on Sunday; closed="right",
\* label="right", the bin edges moved to the end of the Sunday): one bucket
\* per week from the week of the earliest to the week of the latest
\* timestamp, each with its label, the Sunday 00:00 on which the week ends,
\* and the number of rows from the Monday 00:00 before the label up to the
\* Monday 00:00 after it
resample_weekly(tss) ==
    LET s == sorted_timestamps(tss)
        first == week_label(s[1])
        last == week_label(s[Len(s)])
    IN [b \in 1..((last - first) \div WEEK + 1) |->
          LET label == first + (b - 1) * WEEK
          IN [bucket |-> label,
              new_cases |-> Cardinality({k \in 1..Len(s) :
                                            label - WEEK + DAY <= s[k] /\ s[k] < label + DAY})]]

\* series.resample(freq).count() and frame.resample(freq).size()
resample_count(tss, freq) ==
    IF freq = "W" THEN resample_weekly(tss)
    ELSE resample_tick(tss, tick_width(freq))

\* resample cannot lay out its buckets when the frame has rows and none of
\* them has a timestamp: the range of the index is NaT..NaT and the call
\* raises instead of returning counts
resample_raises(frame) ==
    /\ frame # <<>>
    /\ \A k \in 1..Len(frame) : frame[k].ts = NaT

\* aggregate_arrival_counts(arrival_df, freq), for a frame on which resample
\* does not raise; the rows without a timestamp are in no bucket
aggregate_arrival_counts(arrival_df, freq) ==
    IF arrival_df = <<>> THEN <<>>
    ELSE resample_count([k \in 1..Len(arrival_df) |-> arrival_df[k].ts], freq)

\* describe_arrival_times applied to the arrival series of the create events
\* of the active cases (main calls it when there are create events)
DescribeArrivalTimes ==
    /\ pc = "loaded"
    /\ LET active == select_active_create_cases(df, DEFAULT_CREATE_ACTIVITY,
                                                DEFAULT_EXCLUDED_STATES).filtered_df
           active_df == [p \in 1..Len(active) |-> df[active[p]]]
       IN \E create_events_df \in extract_create_events(active_df, DEFAULT_CREATE_ACTIVITY) :
            \E arrival_series \in compute_arrival_series(create_events_df) :
               /\ locals' = [active_df |-> active_df, arrival_series |-> arrival_series]
               /\ ret' = describe_arrival_times(arrival_series)
    /\ args' = <<>>
    /\ pc' = "describe_arrival_times"
    /\ UNCHANGED <<df, columns>>

\* aggregate_arrival_counts applied to the arrival dataframe of the open
\* cases (main calls it when the dataframe is not empty)
AggregateArrivalCounts(freq) ==
    /\ pc = "loaded"
    /\ \E arrivals_df \in build_arrival_dataframe(df, Range(select_open_cases(df))) :
          IF resample_raises(arrivals_df)
          THEN /\ locals' = [operation |-> "aggregate_arrival_counts",
                             arrivals_df |-> arrivals_df]
               /\ ret' = "ValueError"
               /\ pc' = "raised"
          ELSE /\ locals' = [arrivals_df |-> arrivals_df]
               /\ ret' = aggregate_arrival_counts(arrivals_df, freq)
               /\ pc' = "aggregate_arrival_counts"
    /\ args' = [frequency |-> freq]
    /\ UNCHANGED <<df, columns>>

\* create_application_arrival_average.main: the average inter-arrival time
\* and, in write_summary, the gap statistics of the arrival series of the
\* same create events; main exits when no case or no create event is left
WriteSummary ==
    /\ pc = "loaded"
    /\ LET active == select_active_create_cases(df, DEFAULT_CREATE_ACTIVITY,
                                                DEFAULT_EXCLUDED_STATES).filtered_df
           active_df == [p \in 1..Len(active) |-> df[active[p]]]
       IN IF active_df = <<>>
          THEN ret' = <<>> /\ locals' = [exited |-> TRUE, arrival_series |-> <<>>]
          ELSE \E create_events_df \in extract_create_events(active_df, DEFAULT_CREATE_ACTIVITY) :
                  IF create_events_df = <<>>
                  THEN ret' = <<>> /\ locals' = [exited |-> TRUE, arrival_series |-> <<>>]
                  ELSE \E arrival_series \in compute_arrival_series(create_events_df) :
                          /\ ret' = [arrival_average_seconds |->
                                         compute_case_arrival_average(create_events_df),
                                     stats |-> describe_arrival_times(arrival_series)]
                          /\ locals' = [exited |-> FALSE, arrival_series |-> arrival_series]
    /\ args' = <<>>
    /\ pc' = "write_summary"
    /\ UNCHANGED <<df, columns>>

\* case_arrival_rate_visualization.aggregate_arrival_counts(arrivals, frequency),
\* for arrivals on which resample does not raise
visualization_aggregate_arrival_counts(arrivals, frequency) ==
    IF arrivals = <<>> THEN <<>>
    ELSE resample_count([k \in 1..Len(arrivals) |-> arrivals[k].ts], frequency)

\* The values of a series of counts
count_values(counts) == [b \in 1..Len(counts) |-> counts[b].new_cases]

\* The larger of two numbers
max(a, b) == IF a >= b THEN a ELSE b

\* Mutation of rolling_mean below: center=True, the window is centred on the
\* bucket
rolling_mean_centered(xs, window) ==
    [i \in 1..Len(xs) |->
        LET from == max(1, i - (window \div 2))
            to == IF i + ((window - 1) \div 2) <= Len(xs) THEN i + ((window - 1) \div 2)
                  ELSE Len(xs)
        IN Fraction(Sum(SubSeq(xs, from, to)), to - from + 1)]

\* counts.rolling(window=window, min_periods=1).mean(): the mean of the
\* bucket and of the buckets before it, window buckets at most
rolling_mean(xs, window) ==
    [i \in 1..Len(xs) |->
        LET from == max(1, i - window + 1)
        IN Fraction(Sum(SubSeq(xs, from, i)), i - from + 1)]

\* The line ax.plot draws for a series of whole numbers
plotted(xs) == [i \in 1..Len(xs) |-> <<xs[i], 1>>]

\* plot_arrival_counts: window = max(2, len(counts) // 10) if len(counts) > 5
\* else None (0 here)
plot_window(counts) == IF Len(counts) > 5 THEN max(2, Len(counts) \div 10) ELSE 0

\* plot_arrival_counts(counts, output_path, freq): the lines drawn, the
\* counts and, with a window, their rolling mean
plot_arrival_counts(counts) ==
    IF plot_window(counts) # 0
    THEN <<plotted(count_values(counts)), rolling_mean(count_values(counts), plot_window(counts))>>
    ELSE <<plotted(count_values(counts))>>

\* plot_arrival_rate(arrival_counts, rolling_window, output_path): the lines
\* drawn (rolling_window 0 stands for None)
plot_arrival_rate(arrival_counts, rolling_window) ==
    IF rolling_window # 0 /\ rolling_window > 1
    THEN <<plotted(count_values(arrival_counts)),
           rolling_mean(count_values(arrival_counts), rolling_window)>>
    ELSE <<plotted(count_values(arrival_counts))>>

\* pending_case_arrival_analysis.main from the arrival dataframe to the plot;
\* without arrivals main returns before the counts
PlotArrivalCounts(freq) ==
    /\ pc = "loaded"
    /\ \E arrivals_df \in build_arrival_dataframe(df, Range(select_open_cases(df))) :
          IF resample_raises(arrivals_df)
          THEN /\ locals' = [operation |-> "plot_arrival_counts", arrivals_df |-> arrivals_df]
               /\ ret' = "ValueError"
               /\ args' = [frequency |-> freq]
               /\ pc' = "raised"
          ELSE LET arrival_counts == aggregate_arrival_counts(arrivals_df, freq)
               IN /\ locals' = [arrivals_df |-> arrivals_df,
                                arrival_counts |-> arrival_counts]
                  /\ ret' = IF arrivals_df = <<>> \/ arrival_counts = <<>> THEN <<>>
                            ELSE plot_arrival_counts(arrival_counts)
                  /\ args' = [frequency |-> freq,
                              rolling_window |-> plot_window(arrival_counts)]
                  /\ pc' = "plot_arrival_counts"
    /\ UNCHANGED <<df, columns>>

\* case_arrival_rate_visualization.main from the arrival times to the plot;
\* without counts main returns before the plot, and a rolling window of 0 or
\* 1 is passed as None
PlotArrivalRate(freq, window) ==
    /\ pc = "loaded"
    /\ \E arrivals \in compute_case_arrival_times(df) :
          IF resample_raises(arrivals)
          THEN /\ locals' = [operation |-> "plot_arrival_rate", arrivals_df |-> arrivals]
               /\ ret' = "ValueError"
               /\ pc' = "raised"
          ELSE LET arrival_counts == visualization_aggregate_arrival_counts(arrivals, freq)
                   rolling_window == IF window # 0 /\ window > 1 THEN window ELSE 0
               IN /\ locals' = [arrivals_df |-> arrivals, arrival_counts |-> arrival_counts]
                  /\ ret' = IF arrival_counts = <<>> THEN <<>>
                            ELSE plot_arrival_rate(arrival_counts, rolling_window)
                  /\ pc' = "plot_arrival_rate"
    /\ args' = [frequency |-> freq, rolling_window |-> window]
    /\ UNCHANGED <<df, columns>>

----------------------------------------------------------------------------
(* generate_lifecycle_combined_xes.py and process model/process_discovery_lifecycle.py:
   the other two implementations of the combined label *)

\* Mutation of combine_activity below: the separator has no blanks
combine_activity_no_blanks(row) ==
    LET activity == IF notna(ACTIVITY_COLUMN, row.activity) THEN row.activity ELSE ""
    IN IF notna(LIFECYCLE_COLUMN, row.lifecycle)
       THEN activity \o "-" \o row.lifecycle
       ELSE activity

\* generate_lifecycle_combined_xes.combine_activity(row)
combine_activity(row) ==
    LET activity == IF notna(ACTIVITY_COLUMN, row.activity) THEN row.activity ELSE ""
    IN IF notna(LIFECYCLE_COLUMN, row.lifecycle)
       THEN activity \o " - " \o row.lifecycle
       ELSE activity

\* generate_lifecycle_combined_xes.create_combined_activity_column(df): the
\* new values of the activity column; the table is returned as it is when it
\* has no lifecycle column
generate_create_combined_activity_column(table, cols) ==
    IF LIFECYCLE_COLUMN \notin cols
    THEN Returned([i \in 1..Len(table) |-> table[i].activity])
    ELSE Returned([i \in 1..Len(table) |-> combine_activity(table[i])])

\* process_discovery_lifecycle.create_combined_activity_column(df): the
\* "combined_activity" column; row['lifecycle:transition'] raises KeyError on
\* a table without the column (on a table without rows apply returns the
\* empty frame, which cannot be assigned to the one new column)
discovery_create_combined_activity_column(table, cols) ==
    IF LIFECYCLE_COLUMN \notin cols
    THEN IF table = <<>>
         THEN Raised("ValueError: Cannot set a DataFrame with multiple columns")
         ELSE Raised("KeyError: lifecycle:transition")
    ELSE Returned([i \in 1..Len(table) |->
                     IF notna(LIFECYCLE_COLUMN, table[i].lifecycle)
                     THEN table[i].activity \o " - " \o table[i].lifecycle
                     ELSE table[i].activity])

\* One of the three implementations applied to the table
CreateCombinedActivityColumn(implementation) ==
    /\ pc = "loaded"
    /\ ret' = CASE implementation = "variants_lifecycle_analysis" ->
                    Returned(create_combined_activity_column(df, columns))
                [] implementation = "generate_lifecycle_combined_xes" ->
                    generate_create_combined_activity_column(df, columns)
                [] implementation = "process_discovery_lifecycle" ->
                    discovery_create_combined_activity_column(df, columns)
    /\ locals' = <<>>
    /\ args' = [implementation |-> implementation]
    /\ pc' = "create_combined_activity_column"
    /\ UNCHANGED <<df, columns>>

----------------------------------------------------------------------------
(* process model/log_filter.py *)

TARGET_ACTIVITIES == <<"A_Cancelled", "A_Denied", "A_Pending">>

\* _validate_dataframe(df): the required columns the table lacks, in order
validate_missing(cols) ==
    SelectIdx(<<CASE_ID_COLUMN, ACTIVITY_COLUMN, LIFECYCLE_COLUMN>>,
              {CASE_ID_COLUMN, ACTIVITY_COLUMN, LIFECYCLE_COLUMN} \ cols)

\* Mutation of target_set_rejected below: an empty target set is let through
target_set_accepted(target_set) == FALSE

\* if not target_set: raise ValueError(...)
target_set_rejected(target_set) == target_set = {}

\* _filter_cases_by_activities(df, target_activities): the complete events of
\* the cases that have a complete event of a target activity
filter_cases_by_activities(table, target_activities) ==
    LET target_set == Range(target_activities)
    IN IF target_set_rejected(target_set)
       THEN Raised("ValueError: The list of target activities cannot be empty.")
       ELSE LET complete_events ==
                    SelectIdx([i \in 1..Len(table) |-> i],
                              {i \in 1..Len(table) : table[i].lifecycle = "complete"})
                case_ids == {table[i].case : i \in {j \in Range(complete_events) :
                                                       table[j].activity \in target_set}}
                filtered == SelectIdx(complete_events,
                                      {i \in 1..Len(table) : table[i].case \in case_ids})
            IN Returned([p \in 1..Len(filtered) |-> table[filtered[p]]])

\* filter_log(log, activities): validate the table, then filter it
filter_log(table, cols, activities) ==
    IF validate_missing(cols) # <<>>
    THEN Raised("ValueError: The event log must contain the columns")
    ELSE filter_cases_by_activities(table, activities)

\* filter_log called with a tuple of activities
FilterLog(activities) ==
    /\ pc = "loaded"
    /\ ret' = filter_log(df, columns, activities)
    /\ locals' = <<>>
    /\ args' = [activities |-> activities]
    /\ pc' = "filter_log"
    /\ UNCHANGED <<df, columns>>

\* filter_log called with activities = None: the default target activities
FilterLogDefault ==
    /\ pc = "loaded"
    /\ ret' = filter_log(df, columns, TARGET_ACTIVITIES)
    /\ locals' = <<>>
    /\ args' = [activities |-> TARGET_ACTIVITIES]
    /\ pc' = "filter_log"
    /\ UNCHANGED <<df, columns>>

----------------------------------------------------------------------------
(* Specification of the arrival dataframe *)

MaxArrivalRows == 3

ArrivalCaseIds == {1, 2, 3}
ArrivalTimestamps == {NaT, <<1>>, <<2>>}

\* Create events with any timestamp, and events of an excluded activity (the
\* timestamp of a row that is not a create event is never read)
ArrivalRows ==
    {Row(c, CREATE_ACTIVITY, NA, t, NA) : c \in ArrivalCaseIds, t \in ArrivalTimestamps}
    \cup {Row(c, "A_Cancelled", NA, <<1>>, NA) : c \in ArrivalCaseIds}

InitArrival ==
    /\ df \in Tables(ArrivalRows, MaxArrivalRows)
    /\ columns = ALL_COLUMNS
    /\ pc = "loaded"
    /\ args = <<>>
    /\ ret = <<>>
    /\ locals = <<>>

NextArrival ==
    \/ \E case_ids \in {Range(select_open_cases(df)), ArrivalCaseIds} :
          BuildArrivalDataframe(case_ids)
    \/ ComputeArrivalSeries
    \/ ComputeCaseArrivalTimes

SpecArrival == InitArrival /\ [][NextArrival]_vars

----------------------------------------------------------------------------
(* Specification of the average inter-arrival time *)

MaxAverageRows == 3

AverageCaseIds == {1, 2, 3}
AverageTimestamps == {NaT, <<0>>, <<100>>, <<300>>}

AverageRows ==
    {Row(c, CREATE_ACTIVITY, NA, t, NA) : c \in AverageCaseIds, t \in AverageTimestamps}
    \cup {Row(c, "A_Cancelled", NA, <<0>>, NA) : c \in AverageCaseIds}

InitAverage ==
    /\ df \in Tables(AverageRows, MaxAverageRows)
    /\ columns = ALL_COLUMNS
    /\ pc = "loaded"
    /\ args = <<>>
    /\ ret = <<>>
    /\ locals = <<>>

NextAverage == ComputePm4pyArrivalAverage \/ ComputeCaseArrivalAverage

SpecAverage == InitAverage /\ [][NextAverage]_vars

----------------------------------------------------------------------------
(* Specification of the gap statistics and the arrival counts *)

MaxSummaryRows == 3

SummaryCaseIds == {1, 2, 3}
SummaryTimestamps == {<<0>>, <<100>>, <<300>>}

\* The widths of a time bucket
SummaryFrequencies == {"12h", "D"}

\* Create events, and events of an excluded activity
SummaryRows ==
    {Row(c, CREATE_ACTIVITY, NA, t, NA) : c \in SummaryCaseIds, t \in SummaryTimestamps}
    \cup {Row(c, "A_Cancelled", NA, <<0>>, NA) : c \in SummaryCaseIds}

InitSummary ==
    /\ df \in Tables(SummaryRows, MaxSummaryRows)
    /\ columns = ALL_COLUMNS
    /\ pc = "loaded"
    /\ args = <<>>
    /\ ret = <<>>
    /\ locals = <<>>

NextSummary ==
    \/ DescribeArrivalTimes
    \/ \E freq \in SummaryFrequencies : AggregateArrivalCounts(freq)
    \/ SelectActiveCreateCases(DEFAULT_CREATE_ACTIVITY, DEFAULT_EXCLUDED_STATES)
    \/ WriteSummary

SpecSummary == InitSummary /\ [][NextSummary]_vars

----------------------------------------------------------------------------
(* Specification of the bucket counts and their smoothing *)

MaxBucketRows == 3

BucketCaseIds == {1, 2, 3}

\* Saturday 1970-01-03 12:00, Sunday 1970-01-04 00:00, Monday 1970-01-05 00:00
\* and Monday 1970-01-12 00:00
BucketTimestamps == {<<2 * DAY + DAY \div 2>>, <<3 * DAY>>, <<4 * DAY>>, <<11 * DAY>>}

BucketFrequencies == {"12h", "D", "W"}

\* The values of --rolling-window
RollingWindows == {0, 1, 2, 4}

\* The create events of the cases at these times and one of the first case
\* without a timestamp
BucketRows ==
    {Row(c, CREATE_ACTIVITY, NA, t, NA) : c \in BucketCaseIds, t \in BucketTimestamps}
        \cup {Row(1, CREATE_ACTIVITY, NA, NaT, NA)}

InitBuckets ==
    /\ df \in Tables(BucketRows, MaxBucketRows)
    /\ columns = ALL_COLUMNS
    /\ pc = "loaded"
    /\ args = <<>>
    /\ ret = <<>>
    /\ locals = <<>>

NextBuckets ==
    \E freq \in BucketFrequencies :
        \/ AggregateArrivalCounts(freq)
        \/ PlotArrivalCounts(freq)
        \/ \E window \in RollingWindows : PlotArrivalRate(freq, window)

SpecBuckets == InitBuckets /\ [][NextBuckets]_vars

----------------------------------------------------------------------------
(* Specification of the combined labels *)

MaxLabelRows == 3

LabelActivities == {CREATE_ACTIVITY, A_CONCEPT_ACTIVITY}
LabelLifecycles == {NA, "complete", "start"}

Implementations ==
    {"variants_lifecycle_analysis", "generate_lifecycle_combined_xes",
     "process_discovery_lifecycle"}

\* A table of at least one row, with the lifecycle column or without it (its
\* lifecycle cells are then left empty)
InitLabels ==
    /\ df \in Tables({Row(1, a, l, <<1>>, NA) : a \in LabelActivities, l \in LabelLifecycles},
                     MaxLabelRows) \ {<<>>}
    /\ columns \in {ALL_COLUMNS, ALL_COLUMNS \ {LIFECYCLE_COLUMN}}
    /\ LIFECYCLE_COLUMN \notin columns => \A i \in 1..Len(df) : df[i].lifecycle = NA
    /\ pc = "loaded"
    /\ args = <<>>
    /\ ret = <<>>
    /\ locals = <<>>

NextLabels == \E implementation \in Implementations : CreateCombinedActivityColumn(implementation)

SpecLabels == InitLabels /\ [][NextLabels]_vars

----------------------------------------------------------------------------
(* Specification of the log filter *)

MaxFilterRows == 3

FilterCaseIds == {1, 2}
FilterActivities == {"A_Cancelled", A_CONCEPT_ACTIVITY}
FilterLifecycles == {"complete", "start"}

\* The tuples of activities a caller passes
FilterTargets == {<<>>, <<"A_Cancelled">>, <<A_CONCEPT_ACTIVITY, "A_Cancelled">>}

InitFilter ==
    /\ df \in Tables({Row(c, a, l, <<1>>, NA) :
                         c \in FilterCaseIds, a \in FilterActivities, l \in FilterLifecycles},
                     MaxFilterRows)
    /\ columns \in {ALL_COLUMNS, ALL_COLUMNS \ {LIFECYCLE_COLUMN}}
    /\ pc = "loaded"
    /\ args = <<>>
    /\ ret = <<>>
    /\ locals = <<>>

NextFilter ==
    \/ \E activities \in FilterTargets : FilterLog(activities)
    \/ FilterLogDefault

SpecFilter == InitFilter /\ [][NextFilter]_vars

----------------------------------------------------------------------------
(* Specification of the cohort selectors *)

MaxCohortRows == 4

CohortCaseIds == {1, 2}
CohortActivities == {CREATE_ACTIVITY, "A_Cancelled", A_CONCEPT_ACTIVITY, NA}

InitCohort ==
    /\ df \in Tables({Row(c, a, NA, <<1>>, NA) : c \in CohortCaseIds, a \in CohortActivities},
                     MaxCohortRows)
    /\ columns = ALL_COLUMNS
    /\ pc = "loaded"
    /\ args = <<>>
    /\ ret = <<>>
    /\ locals = <<>>

NextCohort ==
    \/ \E create_activity \in {DEFAULT_CREATE_ACTIVITY, A_CONCEPT_ACTIVITY},
          excluded_states \in {DEFAULT_EXCLUDED_STATES, {}} :
            SelectActiveCreateCases(create_activity, excluded_states)
    \/ SelectOpenCases

SpecCohort == InitCohort /\ [][NextCohort]_vars

----------------------------------------------------------------------------
(* Specification of the variant scripts *)

MaxVariantRows == 3

VariantCaseIds == {1, 2, 3}
VariantActivities == {CREATE_ACTIVITY, A_CONCEPT_ACTIVITY}
VariantTimestamps == {NaT, <<1>>, <<2>>}

VariantRows ==
    {Row(c, a, NA, t, NA) :
        c \in VariantCaseIds, a \in VariantActivities, t \in VariantTimestamps}

\* A table with the timestamp column, or one without it (its timestamp
\* cells are then left empty)
InitVariants ==
    /\ df \in Tables(VariantRows, MaxVariantRows)
    /\ columns \in {ALL_COLUMNS, ALL_COLUMNS \ {TIMESTAMP_COLUMN}}
    /\ TIMESTAMP_COLUMN \notin columns => \A i \in 1..Len(df) : df[i].ts = NaT
    /\ pc = "loaded"
    /\ args = <<>>
    /\ ret = <<>>
    /\ locals = <<>>

NextVariants == ComputeVariants \/ PrintMostUsedVariants

SpecVariants == InitVariants /\ [][NextVariants]_vars

----------------------------------------------------------------------------
(* Specification of the variant statistics *)

MaxStatCases == 7
MaxTailVariants == 21

\* The traces of the cases of a table of whole cases
StatTraces ==
    {<<CREATE_ACTIVITY>>, <<CREATE_ACTIVITY, A_CONCEPT_ACTIVITY>>,
     <<A_CONCEPT_ACTIVITY, CREATE_ACTIVITY>>}

\* The table of the cases 1..Len(traces), case c with one row per activity
\* of traces[c], the rows of a case in the order of their timestamps
RECURSIVE TraceTable(_)
TraceTable(traces) ==
    IF traces = <<>> THEN <<>>
    ELSE LET c == Len(traces)
             t == traces[c]
         IN TraceTable(SubSeq(traces, 1, c - 1))
                \o [p \in 1..Len(t) |-> Row(c, t[p], NA, <<p>>, NA)]

\* The n-th of a series of traces that are all different: the binary digits
\* of n + 1 after the leading one, as activities
RECURSIVE DistinctTrace(_)
DistinctTrace(n) ==
    IF n = 0 THEN <<>>
    ELSE DistinctTrace(((n + 1) \div 2) - 1)
             \o <<IF (n + 1) % 2 = 0 THEN CREATE_ACTIVITY ELSE A_CONCEPT_ACTIVITY>>

\* A table of n cases with traces that are all different, followed by extra
\* cases with the trace of the last of them
LongTailTable(n, extra) ==
    TraceTable([c \in 1..(n + extra) |-> DistinctTrace(IF c <= n THEN c ELSE n)])

\* Tables of up to MaxStatCases cases with few variants, and tables with about
\* MaxTailVariants variants, more than the top 20
StatTables ==
    {TraceTable(traces) : traces \in Tables(StatTraces, MaxStatCases)}
    \cup {LongTailTable(n, extra) : n \in (MaxTailVariants - 1)..MaxTailVariants,
                                     extra \in {0, 6}}

InitStatistics ==
    /\ df \in StatTables
    /\ columns = ALL_COLUMNS
    /\ pc = "loaded"
    /\ args = <<>>
    /\ ret = <<>>
    /\ locals = <<>>

NextStatistics == ComputeVariants \/ PrintMostUsedVariants

SpecStatistics == InitStatistics /\ [][NextStatistics]_vars

----------------------------------------------------------------------------
(* Specification of the attribute classifiers *)

MaxAttrRows == 3
MaxWideCases == 5

AttrCaseIds == {1, 2, 3}
AttrValues == {NA, "User_1", "User_2"}

AttrRow(c, v) == Row(c, CREATE_ACTIVITY, NA, <<1>>, v)

\* The values of the column in the rows of one case of a wide table
WideBlocks == {<<"User_1">>, <<NA>>, <<"User_1", "User_2">>}

\* The table of the cases 1..Len(blocks), case c with the rows of blocks[c]
RECURSIVE WideTable(_)
WideTable(blocks) ==
    IF blocks = <<>> THEN <<>>
    ELSE LET c == Len(blocks)
             b == blocks[c]
         IN WideTable(SubSeq(blocks, 1, c - 1)) \o [p \in 1..Len(b) |-> AttrRow(c, b[p])]

\* Small tables with rows in any order, and tables of up to MaxWideCases
\* cases of one or two rows each
AttrTables ==
    Tables({AttrRow(c, v) : c \in AttrCaseIds, v \in AttrValues}, MaxAttrRows)
    \cup {WideTable(blocks) : blocks \in Tables(WideBlocks, MaxWideCases)}

InitAttr ==
    /\ df \in AttrTables
    /\ columns = ALL_COLUMNS
    /\ pc = "loaded"
    /\ args = <<>>
    /\ ret = <<>>
    /\ locals = <<>>

NextAttr ==
    \E column \in AttributeColumns :
        \/ AnalyzeAttributeConstancy(column)
        \/ ClassifyAttributeLevel(column)
        \/ AttributeVisualizationsMain(column)

SpecAttr == InitAttr /\ [][NextAttr]_vars

----------------------------------------------------------------------------
(* Specification of the case-level values *)

MaxCaseValueRows == 3

CaseValueIds == {1, 2}
CaseValueTimes == {1, 2}

\* Rows whose timestamps and attribute values vary, in any row order
CaseValueRows ==
    {Row(c, CREATE_ACTIVITY, NA, <<t>>, v) :
        c \in CaseValueIds, t \in CaseValueTimes, v \in AttrValues}

InitCaseValues ==
    /\ df \in Tables(CaseValueRows, MaxCaseValueRows)
    /\ columns = ALL_COLUMNS
    /\ pc = "loaded"
    /\ args = <<>>
    /\ ret = <<>>
    /\ locals = <<>>

NextCaseValues == \E column \in CaseLevelColumns : GetCaseLevelValues(column)

SpecCaseValues == InitCaseValues /\ [][NextCaseValues]_vars

----------------------------------------------------------------------------
(* Specification of the operations on tables that lack columns *)

MaxSchemaRows == 2

SchemaCaseIds == {1, 2}

\* The rows of a table; a cell of a column the table lacks is never read
SchemaRows ==
    {Row(c, a, NA, <<1>>, v) :
        c \in SchemaCaseIds, a \in VariantActivities, v \in AttrValues}

InitSchema ==
    /\ df \in Tables(SchemaRows, MaxSchemaRows)
    /\ columns \in {ALL_COLUMNS \ absent :
                       absent \in SUBSET {CASE_ID_COLUMN, ACTIVITY_COLUMN, RESOURCE_COLUMN}}
    /\ pc = "loaded"
    /\ args = <<>>
    /\ ret = <<>>
    /\ locals = <<>>

NextSchema ==
    \/ ComputeVariants
    \/ \E column \in AttributeColumns : ClassifyAttributeLevel(column)

SpecSchema == InitSchema /\ [][NextSchema]_vars

----------------------------------------------------------------------------
(* Properties of the variant list *)

VariantsBuilt == pc \in {"compute_variants", "print_most_used_variants"}

RECURSIVE SumCounts(_)
SumCounts(items) ==
    IF items = <<>> THEN 0 ELSE Head(items)[2] + SumCounts(Tail(items))

\* C1: the variant counts sum to the number of distinct case ids, every count
\* is at least 1, and every case is counted in exactly one variant, the one
\* whose key is the trace of the case (a variant's count is the number of
\* cases with that trace).
C1_VariantCountsPartitionCases ==
    VariantsBuilt =>
        /\ SumCounts(ret) = Cardinality({df[i].case : i \in 1..Len(df)})
        /\ Len(locals.traces) = Cardinality({df[i].case : i \in 1..Len(df)})
        /\ \A k \in 1..Len(ret) : ret[k][2] >= 1
        /\ \A g \in 1..Len(locals.traces) :
              Cardinality({k \in 1..Len(ret) : ret[k][1] = locals.traces[g]}) = 1
        /\ \A k \in 1..Len(ret) :
              ret[k][2] = Cardinality({g \in 1..Len(locals.traces) :
                                          locals.traces[g] = ret[k][1]})

C1_Witness ==
    /\ pc = "compute_variants"
    /\ Len(ret) >= 2
    /\ \E k \in 1..Len(ret) : ret[k][2] >= 2

\* The order of the rows of one case in its trace: timestamps ascending, rows
\* without a timestamp behind the others, and rows with equal (or equally
\* missing) timestamps in their original row order
TraceOrder(table, idx) ==
    \A p, q \in 1..Len(idx) :
        p < q =>
            LET a == table[idx[p]].ts
                b == table[idx[q]].ts
            IN /\ (a # NaT /\ b # NaT) => a[1] <= b[1]
               /\ a = NaT => b = NaT
               /\ a = b => idx[p] < idx[q]

\* The rows of every case stand in df_sorted in the order of the rule
RowsInTraceOrder ==
    \A g \in 1..Len(locals.traces) :
        LET R == CaseRows(df, GroupKeys(df)[g])
            idx == SelectIdx(locals.df_sorted, R)
        IN Len(idx) = Cardinality(R) /\ TraceOrder(df, idx)

\* The trace of every case is the one sequence the ordering rule determines
TracesInTraceOrder ==
    \A g \in 1..Len(locals.traces) :
        LET R == CaseRows(df, GroupKeys(df)[g])
        IN /\ Len(locals.traces[g]) = Cardinality(R)
           /\ \A f \in Orderings(R) :
                 TraceOrder(df, f) =>
                     locals.traces[g] =
                         [p \in 1..Len(f) |->
                            create_combined_activity_column(df, columns)[f[p]]]

\* C2: in every case the events are in timestamp order, rows of equal
\* timestamp and rows without a timestamp keep their original relative
\* order, and the trace is the one sequence this order determines: every
\* ordering of the case's rows that obeys the rule yields the trace.
C2_TraceOrderStable == pc = "compute_variants" => TracesInTraceOrder

\* The same for the tables that have the timestamp column, where the sort is
\* the stable multi-key sort
TraceOrderStableWithTimestampColumn ==
    (pc = "compute_variants" /\ TIMESTAMP_COLUMN \in columns) =>
        (RowsInTraceOrder /\ TracesInTraceOrder)

\* A table without the timestamp column holding a case of two events with
\* different labels, after compute_variants
C2_Witness ==
    /\ pc = "compute_variants"
    /\ TIMESTAMP_COLUMN \notin columns
    /\ \E i, j \in 1..Len(df) :
          i < j /\ df[i].case = df[j].case /\ df[i].activity # df[j].activity

\* A case of a table with the timestamp column in which a tie of timestamps
\* and an out-of-order row both occur, after compute_variants
StableSortReached ==
    /\ pc = "compute_variants"
    /\ TIMESTAMP_COLUMN \in columns
    /\ \E i, j, k \in 1..Len(df) :
          /\ i < j /\ j < k
          /\ df[i].case = df[j].case /\ df[j].case = df[k].case
          /\ df[i].ts = df[j].ts /\ df[i].activity # df[j].activity
          /\ df[k].ts # NaT /\ df[i].ts # NaT /\ df[k].ts[1] < df[i].ts[1]

FirstMember(key) ==
    CHOOSE g \in 1..Len(locals.traces) :
        /\ locals.traces[g] = key
        /\ \A h \in 1..Len(locals.traces) : locals.traces[h] = key => g <= h

\* C3: the variant list is in count-descending order, and variants of equal
\* count are in the order in which their first member case was collected.
C3_CountDescendingStableTies ==
    VariantsBuilt =>
        \A k, m \in 1..Len(ret) :
            k < m =>
                /\ ret[k][2] >= ret[m][2]
                /\ ret[k][2] = ret[m][2] => FirstMember(ret[k][1]) < FirstMember(ret[m][1])

\* A variant collected later has the higher count and is listed first
C3_Witness ==
    /\ pc = "compute_variants"
    /\ Len(ret) = 2
    /\ ret[1][2] > ret[2][2]
    /\ FirstMember(ret[2][1]) < FirstMember(ret[1][1])

----------------------------------------------------------------------------
(* Properties of the attribute classifiers *)

Classified ==
    pc \in {"analyze_attribute_constancy", "classify_attribute_level",
            "attribute_visualizations_main"}

\* Brute force: no two rows of the case hold different values of the column
ConstantByComparison(table, column, c) ==
    \A i, j \in CaseRows(table, c) :
        (notna(column, Cell(table[i], column)) /\ notna(column, Cell(table[j], column)))
            => Cell(table[i], column) = Cell(table[j], column)

NonNullCells(table, column, c) ==
    {i \in CaseRows(table, c) : notna(column, Cell(table[i], column))}

\* C5: for a column other than the case id, a case is constant exactly when
\* it has no non-null value, one non-null value, or only equal non-null
\* values; two distinct non-null values make it not constant, null values
\* never do.
C5_ConstantInCase ==
    (Classified /\ args.column # CASE_ID_COLUMN) =>
        /\ Len(locals.is_constant_per_case) = Len(GroupKeys(df))
        /\ \A g \in 1..Len(locals.is_constant_per_case) :
              LET c == GroupKeys(df)[g]
                  n == Cardinality(NonNullCells(df, args.column, c))
                  values == {Cell(df[i], args.column) : i \in NonNullCells(df, args.column, c)}
              IN /\ locals.is_constant_per_case[g] =
                        (n = 0 \/ n = 1 \/ Cardinality(values) = 1)
                 /\ Cardinality(values) >= 2 => ~locals.is_constant_per_case[g]

\* A case of two rows, one holding a value and one null, counts as constant
C5_Witness ==
    /\ pc = "classify_attribute_level"
    /\ args.column = RESOURCE_COLUMN
    /\ Len(df) = 3
    /\ \E g \in 1..Len(locals.is_constant_per_case) :
          /\ locals.is_constant_per_case[g]
          /\ Cardinality(CaseRows(df, GroupKeys(df)[g])) = 2
          /\ Cardinality(NonNullCells(df, RESOURCE_COLUMN, GroupKeys(df)[g])) = 1

ConstantCases(table, column) ==
    {c \in {table[i].case : i \in 1..Len(table)} : ConstantByComparison(table, column, c)}

\* C6: for a column other than the case id, percent_constant is
\* 100 * (cases constant by pairwise comparison) / (distinct case ids, cases
\* without a value included), lies in [0, 100], and is 0.0 for no cases.
C6_PercentConstant ==
    (Classified /\ args.column # CASE_ID_COLUMN) =>
        LET total == Cardinality({df[i].case : i \in 1..Len(df)})
            constant == Cardinality(ConstantCases(df, args.column))
            p == ret.percent_constant
        IN /\ p[2] > 0
           /\ total > 0 => p[1] * total = 100 * constant * p[2]
           /\ total = 0 => p = <<0, 1>>
           /\ 0 <= p[1] /\ p[1] <= 100 * p[2]

\* A case without any value of the column is counted, one case is not constant
C6_Witness ==
    /\ pc = "analyze_attribute_constancy"
    /\ args.column = RESOURCE_COLUMN
    /\ ret.percent_constant = <<200, 3>>
    /\ \E c \in {df[i].case : i \in 1..Len(df)} : NonNullCells(df, RESOURCE_COLUMN, c) = {}

\* C7: the level of a column other than the case id is decided by
\* percent_constant alone: CASE from 80.0 on, MOSTLY_CASE from 50.0 up to but
\* not including 80.0, EVENT below 50.0.
C7_LevelThresholds ==
    (pc \in {"classify_attribute_level", "attribute_visualizations_main"}
        /\ args.column # CASE_ID_COLUMN) =>
        LET p == ret.percent_constant
        IN /\ ret.level = "case" <=> p[1] >= 80 * p[2]
           /\ ret.level = "mostly_case" <=> (p[1] >= 50 * p[2] /\ p[1] < 80 * p[2])
           /\ ret.level = "event" <=> p[1] < 50 * p[2]
           /\ ret.level \in {"case", "mostly_case", "event"}

\* Four of five cases are constant: exactly 80.0
C7_Witness ==
    /\ pc = "classify_attribute_level"
    /\ args.column = RESOURCE_COLUMN
    /\ ret.percent_constant = <<80, 1>>
    /\ ret.level = "case"

C7_WitnessHalf ==
    /\ pc = "classify_attribute_level"
    /\ args.column = RESOURCE_COLUMN
    /\ ret.percent_constant = <<50, 1>>
    /\ ret.level = "mostly_case"

\* C8: the case-identifier column is always classified EVENT with
\* percent_constant 0.0, not case-level and not constant, whatever the table.
C8_CaseIdColumnIsEvent ==
    (Classified /\ args.column = CASE_ID_COLUMN) =>
        /\ ret.percent_constant = <<0, 1>>
        /\ pc = "analyze_attribute_constancy" => ret.is_constant = FALSE
        /\ pc # "analyze_attribute_constancy" =>
              (ret.level = "event" /\ ret.is_case_level = FALSE)

\* Every case has a single row, so the case id is constant within each case
C8_Witness ==
    /\ pc = "analyze_attribute_constancy"
    /\ args.column = CASE_ID_COLUMN
    /\ Len(df) >= 2
    /\ \A i, j \in 1..Len(df) : df[i].case = df[j].case => i = j

----------------------------------------------------------------------------
(* Properties of the cohort selectors *)

\* The cases with a row of the inclusion activity and no row of an excluded one
Cohort(table, include, exclude) ==
    {c \in {table[i].case : i \in 1..Len(table)} :
        /\ \E i \in CaseRows(table, c) : table[i].activity = include
        /\ ~\E i \in CaseRows(table, c) : table[i].activity \in exclude}

\* C4: a case is in the cohort if and only if it has at least one row of the
\* inclusion (create) activity and no row of an excluded activity, for
\* select_active_create_cases (which returns the rows of the cohort's cases)
\* and for select_open_cases.
C4_CohortMembership ==
    /\ pc = "select_active_create_cases" =>
          LET cohort == Cohort(df, args.create_activity, args.excluded_states)
          IN /\ locals.eligible_cases = cohort
             /\ ret = SelectIdx(df, {df[i] : i \in {j \in 1..Len(df) : df[j].case \in cohort}})
    /\ pc = "select_open_cases" =>
          /\ Range(ret) = Cohort(df, args.create_activity, args.excluded_states)
          /\ Len(ret) = Cardinality(Range(ret))

\* Case 1 = [Create, A_Concept], case 2 = [Create, A_Cancelled]: cohort {1}
C4_Witness ==
    /\ pc = "select_open_cases"
    /\ df = <<Row(1, CREATE_ACTIVITY, NA, <<1>>, NA), Row(1, A_CONCEPT_ACTIVITY, NA, <<1>>, NA),
              Row(2, CREATE_ACTIVITY, NA, <<1>>, NA), Row(2, "A_Cancelled", NA, <<1>>, NA)>>
    /\ ret = <<1>>

----------------------------------------------------------------------------
(* Properties of the arrival dataframe *)

AnchorRows(table, c) ==
    {i \in CaseRows(table, c) : table[i].activity = CREATE_ACTIVITY}

\* The timestamp of the earliest of the given rows: no row has a smaller
\* timestamp; it is missing only when every row's timestamp is missing
IsEarliest(table, rows, t) ==
    /\ \E i \in rows : table[i].ts = t
    /\ \A i \in rows : table[i].ts # NaT => (t # NaT /\ t[1] <= table[i].ts[1])

\* C9: every cohort case with an anchor row has exactly one entry in the
\* arrival dataframe, carrying the timestamp of its earliest anchor row;
\* cohort cases without an anchor row and cases outside the cohort have none.
C9_OneEarliestAnchorPerCase ==
    pc = "build_arrival_dataframe" =>
        /\ \A c \in args.case_ids :
              LET entries == {k \in 1..Len(ret) : ret[k].case = c}
              IN IF AnchorRows(df, c) # {}
                 THEN /\ Cardinality(entries) = 1
                      /\ \A k \in entries : IsEarliest(df, AnchorRows(df, c), ret[k].ts)
                 ELSE entries = {}
        /\ \A k \in 1..Len(ret) : ret[k].case \in args.case_ids

\* A cohort case whose later anchor row is the earlier one in time, and a
\* cohort case without an anchor row
C9_Witness ==
    /\ pc = "build_arrival_dataframe"
    /\ \E c \in args.case_ids : \E i, j \in AnchorRows(df, c) :
          i < j /\ df[i].ts # NaT /\ df[j].ts # NaT /\ df[j].ts[1] < df[i].ts[1]
    /\ \E c \in args.case_ids : CaseRows(df, c) # {} /\ AnchorRows(df, c) = {}
    /\ Len(ret) = 1

Timestamps(frame) == [k \in 1..Len(frame) |-> frame[k].ts]

NonDecreasing(tss) ==
    \A p, q \in 1..Len(tss) :
        p < q => /\ (tss[p] # NaT /\ tss[q] # NaT) => tss[p][1] <= tss[q][1]
                 /\ tss[p] = NaT => tss[q] = NaT

\* The tables that hold the rows of the table in another order
Reorderings(table) ==
    {[p \in 1..Len(table) |-> table[f[p]]] : f \in Orderings(1..Len(table))}

\* C10: the timestamps of the arrival series are non-decreasing (entries
\* without a timestamp last) whatever the order of the source rows, and the
\* sequence of timestamps of the arrival dataframe is the same for every
\* order of the rows of the input table.
C10_SortedForAnyRowOrder ==
    /\ pc \in {"build_arrival_dataframe", "compute_arrival_series",
               "compute_case_arrival_times"} => NonDecreasing(Timestamps(ret))
    /\ pc = "build_arrival_dataframe" =>
          \A t \in Reorderings(df) :
              \A r \in build_arrival_dataframe(t, args.case_ids) :
                  Timestamps(r) = Timestamps(ret)

\* The case with the smaller id arrives later: the sort reorders the entries
C10_Witness ==
    /\ pc = "build_arrival_dataframe"
    /\ Len(ret) >= 2
    /\ ret[1].case > ret[2].case
    /\ ret[1].ts # NaT /\ ret[2].ts # NaT /\ ret[1].ts[1] < ret[2].ts[1]

----------------------------------------------------------------------------
(* The average inter-arrival time *)

AverageDone == pc \in {"compute_pm4py_arrival_average", "compute_case_arrival_average"}

\* The timestamps of the create events of case c
CreateTimes(table, c) ==
    {table[i].ts[1] : i \in {j \in CaseRows(table, c) :
                                 table[j].activity = CREATE_ACTIVITY /\ table[j].ts # NaT}}

SetMin(S) == CHOOSE x \in S : \A y \in S : x <= y
SetMax(S) == CHOOSE x \in S : \A y \in S : y <= x

\* The cases of the cohort that have an arrival
ArrivingCases(table) ==
    {c \in Cohort(table, CREATE_ACTIVITY, EXCLUSION_ACTIVITIES) : CreateTimes(table, c) # {}}

\* The arrival of a case: its earliest create event
Arrival(table, c) == SetMin(CreateTimes(table, c))

Arrivals(table) == {Arrival(table, c) : c \in ArrivingCases(table)}

\* C11: with two or more arrivals the average is (last arrival - first
\* arrival) / (number of arrivals - 1), the arrivals being the earliest create
\* events of the cases of the cohort; arrivals at 0, 100 and 300 give 150.
C11_AverageIsSpanOverGaps ==
    (AverageDone /\ Cardinality(ArrivingCases(df)) >= 2) =>
        /\ Len(ret) = 2 /\ ret[2] > 0
        /\ ret[1] * (Cardinality(ArrivingCases(df)) - 1) =
               (SetMax(Arrivals(df)) - SetMin(Arrivals(df))) * ret[2]
        /\ (Cardinality(ArrivingCases(df)) = 3 /\ Arrivals(df) = {0, 100, 300}) =>
               ret = <<150, 1>>

\* Three cases arrive at 0, 100 and 300, the table listing them out of order
C11_Witness ==
    /\ pc = "compute_pm4py_arrival_average"
    /\ Cardinality(ArrivingCases(df)) = 3
    /\ Arrivals(df) = {0, 100, 300}
    /\ df[1].ts = <<300>>
    /\ ret = <<150, 1>>

\* Two cases arrive, one of them with a later second create event
C11_WitnessCreateScript ==
    /\ pc = "compute_case_arrival_average"
    /\ Cardinality(ArrivingCases(df)) = 2
    /\ \E c \in ArrivingCases(df) : Cardinality(CreateTimes(df, c)) = 2
    /\ ret[1] > 0

\* C12: with no arrival or a single one the average is 0.0: for the empty
\* arrival dataframe, for a dataframe of one arrival, and in the create
\* script whenever it gets as far as the average.
C12_AverageZeroBelowTwo ==
    /\ (pc = "compute_pm4py_arrival_average" /\ Cardinality(ArrivingCases(df)) < 2) =>
           ret = <<0, 1>>
    /\ (pc = "compute_case_arrival_average" /\ Cardinality(ArrivingCases(df)) < 2) =>
           (IF locals.exited THEN ret = <<>> ELSE ret = <<0, 1>>)

\* The table has no open case with a create event: the arrival dataframe is
\* empty
C12_Witness ==
    /\ pc = "compute_pm4py_arrival_average"
    /\ df # <<>>
    /\ locals.arrivals_df = <<>>
    /\ ret = <<0, 1>>

\* A single case arrives
C12_WitnessSingle ==
    /\ AverageDone
    /\ Cardinality(ArrivingCases(df)) = 1
    /\ ret = <<0, 1>>

----------------------------------------------------------------------------
(* Rejected inputs *)

\* C13: a call with an empty tuple of target activities raises and returns
\* no filtered log, whatever the table; on a table that passes the column
\* validation the error is the one about the empty list of activities, and a
\* call that returns a log was given at least one activity.
C13_EmptyTargetsRejected ==
    pc = "filter_log" =>
        /\ args.activities = <<>> =>
               /\ ret.error # "" /\ ret.value = <<>>
               /\ validate_missing(columns) = <<>> =>
                      ret.error = "ValueError: The list of target activities cannot be empty."
        /\ ret.error = "" => args.activities # <<>>

\* The table has a complete target event of a case, and the call names no
\* activity
C13_Witness ==
    /\ pc = "filter_log"
    /\ args.activities = <<>>
    /\ validate_missing(columns) = <<>>
    /\ \E i \in 1..Len(df) : df[i].lifecycle = "complete" /\ df[i].activity = "A_Cancelled"
    /\ ret.error = "ValueError: The list of target activities cannot be empty."

\* The operation the action has carried out
Operation == IF pc = "raised" THEN locals.operation ELSE pc

\* C14 as stated: an operation on a table that lacks a column it requires
\* raises and returns nothing: the variant construction without the case id
\* or the activity column, the classification without the classified column
\* or the case id column, the classified column being the case id or not.
C14_MissingColumnRaises ==
    /\ (Operation = "compute_variants"
           /\ {CASE_ID_COLUMN, ACTIVITY_COLUMN} \ columns # {}) => pc = "raised"
    /\ (Operation = "classify_attribute_level"
           /\ {args.column, CASE_ID_COLUMN} \ columns # {}) => pc = "raised"

\* C14 as amended: the same, except that the classification of the case id
\* column returns its fixed event-level result without reading the table, so
\* also for a table that lacks the case id column.  A call that raises leaves
\* the exception as its only result, and a call on a table that has the
\* required columns does not raise.
C14_MissingColumnRaisesUnlessCaseId ==
    /\ Operation = "compute_variants" =>
           (pc = "raised" <=> {CASE_ID_COLUMN, ACTIVITY_COLUMN} \ columns # {})
    /\ (Operation = "classify_attribute_level" /\ args.column # CASE_ID_COLUMN) =>
           (pc = "raised" <=> {args.column, CASE_ID_COLUMN} \ columns # {})
    /\ (Operation = "classify_attribute_level" /\ args.column = CASE_ID_COLUMN) =>
           /\ pc = "classify_attribute_level"
           /\ ret = [level |-> "event", percent_constant |-> <<0, 1>>,
                     is_case_level |-> FALSE]
    /\ pc = "raised" => (ret # "" /\ DOMAIN locals = {"operation"})

\* The classification of a column the table lacks, on a table with rows
C14_Witness ==
    /\ pc = "raised"
    /\ locals.operation = "classify_attribute_level"
    /\ args.column = RESOURCE_COLUMN
    /\ RESOURCE_COLUMN \notin columns /\ CASE_ID_COLUMN \in columns
    /\ df # <<>>

\* The variant construction on a table without the activity column
C14_WitnessVariants ==
    /\ pc = "raised"
    /\ locals.operation = "compute_variants"
    /\ ACTIVITY_COLUMN \notin columns /\ CASE_ID_COLUMN \in columns
    /\ df # <<>>

\* The classification of the case id column of a table that lacks it
C14_WitnessCaseId ==
    /\ pc = "classify_attribute_level"
    /\ args.column = CASE_ID_COLUMN
    /\ CASE_ID_COLUMN \notin columns
    /\ ret.level = "event"

----------------------------------------------------------------------------
(* Empty inputs *)

\* The figures of a report are all zero: no case, no variant, and a coverage
\* of the top variant that is absent or zero
ReportAllZero(report) ==
    /\ report.total_cases = 0
    /\ report.unique_variants = 0
    /\ report.top_coverage \in {<<>>, <<<<0, 1>>>>}

\* C15: a table without events gives an empty list of variants, the reports
\* of both scripts are computed without an exception, and their figures are
\* all zero.
C15_EmptyVariantsAllZero ==
    (Operation \in {"compute_variants", "print_most_used_variants"} /\ df = <<>>) =>
        /\ pc # "raised"
        /\ ret = <<>>
        /\ ReportAllZero(locals.report)
        /\ pc = "print_most_used_variants" =>
               /\ locals.statistics.unique_only = 0
               /\ \A n \in DOMAIN locals.statistics.coverage :
                      locals.statistics.coverage[n] = <<0, 1>>
               /\ \A t \in DOMAIN locals.statistics.tail_count :
                      locals.statistics.tail_count[t] = 0

\* print_most_used_variants has raised on the table without events
C15_Witness ==
    /\ pc = "raised"
    /\ locals.operation = "print_most_used_variants"
    /\ df = <<>>

\* variants_lifecycle_analysis alone: its report of a table without events
\* is computed and all zero
EmptyVariantsLifecycleReport ==
    (pc = "compute_variants" /\ df = <<>>) => (ret = <<>> /\ ReportAllZero(locals.report))

\* C16: when no case is in the cohort (the table being empty or not) the
\* filtered table, the arrival series, the arrival dataframe and the bucket
\* counts are empty, and a series of fewer than two arrivals has empty gap
\* statistics; a series of two or more has statistics of its gaps.
C16_DegenerateInputsGiveEmptyResults ==
    /\ (pc = "select_active_create_cases"
           /\ Cohort(df, CREATE_ACTIVITY, EXCLUSION_ACTIVITIES) = {}) => ret = <<>>
    /\ pc = "describe_arrival_times" =>
           /\ Cohort(df, CREATE_ACTIVITY, EXCLUSION_ACTIVITIES) = {} =>
                  (locals.active_df = <<>> /\ locals.arrival_series = <<>>)
           /\ Cardinality(Cohort(df, CREATE_ACTIVITY, EXCLUSION_ACTIVITIES)) < 2 => ret = <<>>
           /\ Cardinality(Cohort(df, CREATE_ACTIVITY, EXCLUSION_ACTIVITIES)) >= 2 =>
                  ret.count = Cardinality(Cohort(df, CREATE_ACTIVITY, EXCLUSION_ACTIVITIES)) - 1
    /\ (pc = "aggregate_arrival_counts"
           /\ Cohort(df, CREATE_ACTIVITY, EXCLUSION_ACTIVITIES) = {}) =>
           (locals.arrivals_df = <<>> /\ ret = <<>>)

\* A table with events whose only case is excluded: no arrival, no buckets
C16_Witness ==
    /\ pc = "aggregate_arrival_counts"
    /\ df # <<>>
    /\ \E i \in 1..Len(df) : df[i].activity = CREATE_ACTIVITY
    /\ Cohort(df, CREATE_ACTIVITY, EXCLUSION_ACTIVITIES) = {}
    /\ ret = <<>>

\* A single case arrives: no gap statistics
C16_WitnessSingle ==
    /\ pc = "describe_arrival_times"
    /\ Len(locals.arrival_series) = 1
    /\ ret = <<>>

----------------------------------------------------------------------------
(* The combined label *)

\* The label of a row: the bare activity when the table has no lifecycle
\* column or the row no lifecycle, else activity, " - " and lifecycle
Label(row) ==
    IF LIFECYCLE_COLUMN \notin columns \/ row.lifecycle = NA
    THEN row.activity
    ELSE row.activity \o " - " \o row.lifecycle

\* The call returned the label of every row
LabelsReturned ==
    /\ ret.error = ""
    /\ Len(ret.value) = Len(df)
    /\ \A i \in 1..Len(df) : ret.value[i] = Label(df[i])

C17_WitnessDiscovery ==
    /\ pc = "create_combined_activity_column"
    /\ args.implementation = "process_discovery_lifecycle"
    /\ LIFECYCLE_COLUMN \notin columns
    /\ df # <<>>
    /\ ret.error = "KeyError: lifecycle:transition"

----------------------------------------------------------------------------
(* Trace length and variant key *)

\* The number of positions of a sequence that hold x
Occurrences(seq, x) == Cardinality({p \in 1..Len(seq) : seq[p] = x})

\* C18: the trace of a case has one label per event row of the case, each
\* label as often as the case's rows carry it, and the variants are these
\* traces unchanged: every trace is the key of a variant, every key is a
\* trace, and the count of a variant is the number of cases whose whole
\* trace equals the key.
C18_TraceKeepsEveryEvent ==
    pc = "compute_variants" =>
        LET labels == create_combined_activity_column(df, columns)
            keys == GroupKeys(df)
        IN /\ Len(locals.traces) = Len(keys)
           /\ \A g \in 1..Len(keys) :
                 LET R == CaseRows(df, keys[g])
                 IN /\ Len(locals.traces[g]) = Cardinality(R)
                    /\ \A i \in R :
                          Occurrences(locals.traces[g], labels[i]) =
                              Cardinality({j \in R : labels[j] = labels[i]})
                    /\ \E k \in 1..Len(ret) : ret[k][1] = locals.traces[g]
           /\ \A k \in 1..Len(ret) :
                 /\ ret[k][2] >= 1
                 /\ ret[k][2] = Cardinality({g \in 1..Len(keys) :
                                                locals.traces[g] = ret[k][1]})

\* A case repeats its activity and another case has it once: two variants
C18_Witness ==
    /\ pc = "compute_variants"
    /\ \E g, h \in 1..Len(locals.traces) :
          /\ Len(locals.traces[g]) = 2
          /\ locals.traces[g][1] = locals.traces[g][2]
          /\ locals.traces[h] = <<locals.traces[g][1]>>
    /\ Len(ret) = 2

----------------------------------------------------------------------------
(* The case-level value of a column *)

\* The rows of case c that hold a value of the column
ValueRows(c, column) == {i \in CaseRows(df, c) : notna(column, Cell(df[i], column))}

\* Row i comes before row j in the trace of their case: the earlier
\* timestamp first, equal timestamps in row order
BeforeInTrace(i, j) ==
    \/ df[i].ts[1] < df[j].ts[1]
    \/ df[i].ts[1] = df[j].ts[1] /\ i < j

\* The rows of case c are in the order of their timestamps
CaseInTimestampOrder(c) ==
    \A i, j \in CaseRows(df, c) : i < j => df[i].ts[1] <= df[j].ts[1]

\* C19 as stated: the value returned for a case is the case's first non-null
\* value in trace order (the timestamp order of its events), whatever the
\* row order of the table, and no value when the case has none.
C19_FirstValueInTraceOrder ==
    pc = "get_case_level_values" =>
        /\ DOMAIN ret = {df[i].case : i \in 1..Len(df)}
        /\ \A c \in DOMAIN ret :
              LET R == ValueRows(c, args.column)
              IN IF R = {} THEN ret[c] = NA
                 ELSE \E i \in R :
                        /\ \A j \in R \ {i} : BeforeInTrace(i, j)
                        /\ ret[c] = Cell(df[i], args.column)

\* C19 amended: the value returned for a case is the case's first non-null
\* value in the row order of the table, and no value when the case has none;
\* it is the first in trace order when the rows of the case are in the order
\* of their timestamps.
C19_FirstValueInRowOrder ==
    pc = "get_case_level_values" =>
        /\ DOMAIN ret = {df[i].case : i \in 1..Len(df)}
        /\ \A c \in DOMAIN ret :
              LET R == ValueRows(c, args.column)
              IN IF R = {} THEN ret[c] = NA
                 ELSE \E i \in R :
                        /\ \A j \in R : i <= j
                        /\ ret[c] = Cell(df[i], args.column)
                        /\ CaseInTimestampOrder(c) =>
                              \A j \in R \ {i} : BeforeInTrace(i, j)

\* A case whose later event comes first in the table, the two events with
\* different values, after a null row that is skipped
C19_Witness ==
    /\ pc = "get_case_level_values"
    /\ args.column = RESOURCE_COLUMN
    /\ \E c \in DOMAIN ret :
          \E i, j, k \in CaseRows(df, c) :
              /\ i < j /\ j < k
              /\ df[i].attr = NA
              /\ df[j].attr # NA /\ df[k].attr # NA /\ df[j].attr # df[k].attr
              /\ df[k].ts[1] < df[j].ts[1]
              /\ ret[c] = df[j].attr

\* A case without a value of the column next to a case with one
C19_WitnessNoValue ==
    /\ pc = "get_case_level_values"
    /\ args.column = RESOURCE_COLUMN
    /\ \E c, d \in DOMAIN ret : ret[c] = NA /\ ret[d] # NA

----------------------------------------------------------------------------
(* Equal timestamps in the sorted arrival series *)

ArrivalsSorted == pc \in {"build_arrival_dataframe", "compute_arrival_series"}

\* C20 as stated: entries of the sorted arrival series with equal timestamps
\* keep the order their cases had before the sort, which is the order of the
\* case ids (the group keys); the sort never swaps two of them.
C20_TiesKeepCaseOrder ==
    ArrivalsSorted =>
        \A p, q \in 1..Len(ret) :
            (p < q /\ ret[p].ts = ret[q].ts) => ret[p].case < ret[q].case

\* C20 amended: the sorted arrival series holds each case once, an entry
\* with a smaller timestamp comes before one with a larger timestamp and the
\* entries without a timestamp come last; the order of two entries with
\* equal timestamps is not determined.
C20_TiesInAnyOrder ==
    ArrivalsSorted =>
        \A p, q \in 1..Len(ret) :
            p < q =>
                /\ ret[p].case # ret[q].case
                /\ ret[q].ts # NaT => (ret[p].ts # NaT /\ ret[p].ts[1] <= ret[q].ts[1])

\* Two cases arrive at the same time and the sort leaves the case with the
\* larger id first
C20_Witness ==
    /\ pc = "build_arrival_dataframe"
    /\ Len(ret) = 3
    /\ \E p \in 1..2 :
          /\ ret[p].ts # NaT
          /\ ret[p].ts = ret[p + 1].ts
          /\ ret[p].case > ret[p + 1].case

\* The same in the arrival series of create_application_arrival_average
C20_WitnessSeries ==
    /\ pc = "compute_arrival_series"
    /\ Len(ret) = 2
    /\ ret[1].ts # NaT
    /\ ret[1].ts = ret[2].ts
    /\ ret[1].case > ret[2].case

----------------------------------------------------------------------------
(* The time buckets of the arrival counts *)

\* The call computed bucket counts from at least one arrival
Bucketed ==
    /\ pc \in {"aggregate_arrival_counts", "plot_arrival_counts", "plot_arrival_rate"}
    /\ locals.arrivals_df # <<>>

\* The bucket counts the call computed
BucketCounts == IF pc = "aggregate_arrival_counts" THEN ret ELSE locals.arrival_counts

\* The arrivals with a timestamp the buckets were computed from, as positions
\* of the frame
ArrivalIndex == {k \in 1..Len(locals.arrivals_df) : locals.arrivals_df[k].ts # NaT}

ArrivalTime(k) == locals.arrivals_df[k].ts[1]

\* The width of a bucket of the frequency
BucketWidth(freq) == IF freq = "W" THEN WEEK ELSE tick_width(freq)

\* The buckets are consecutive intervals [start, start + width), start being
\* given for each label; each holds the number of arrivals in its interval
\* and the first and the last hold the earliest and the latest arrival
BucketsPartition(counts, width, start(_)) ==
    /\ counts # <<>>
    /\ \A b \in 1..Len(counts) :
          counts[b].new_cases =
              Cardinality({k \in ArrivalIndex :
                              /\ start(counts[b].bucket) <= ArrivalTime(k)
                              /\ ArrivalTime(k) < start(counts[b].bucket) + width})
    /\ \A b \in 1..(Len(counts) - 1) : counts[b + 1].bucket = counts[b].bucket + width
    /\ \A k \in ArrivalIndex :
          /\ start(counts[1].bucket) <= ArrivalTime(k)
          /\ ArrivalTime(k) < start(counts[Len(counts)].bucket) + width
    /\ counts[1].new_cases >= 1
    /\ counts[Len(counts)].new_cases >= 1

\* A bucket that is reported by its start
StartIsLabel(label) == label

\* A week that is reported by the Sunday 00:00 on which it ends starts on the
\* Monday 00:00 before
StartOfWeek(label) == label - WEEK + DAY

C21_WitnessDaily ==
    /\ pc = "aggregate_arrival_counts"
    /\ args.frequency = "D"
    /\ Len(ret) = 8
    /\ \E b \in 1..Len(ret) : ret[b].new_cases = 0
    /\ \E k \in ArrivalIndex : ArrivalTime(k) = ret[1].bucket
    /\ ret[1].new_cases = 2

----------------------------------------------------------------------------
(* The gap statistics *)

\* The gap between arrival k and the next one of the sorted arrival series
Gap(series, k) == series[k + 1].ts[1] - series[k].ts[1]

\* C22 as stated: the gap statistics of a series of fewer than two arrivals
\* are empty; those of a longer series are taken over count - 1 gaps, each
\* the difference of two consecutive timestamps of the sorted series, and
\* the mean is the mean of these differences (150 for the gaps 100 and 200).
C22_MeanOfGapsAsGiven ==
    pc = "describe_arrival_times" =>
        LET series == locals.arrival_series
            n == Len(series)
        IN IF n < 2 THEN ret = <<>>
           ELSE /\ ret.count = n - 1
                /\ ret.mean = Fraction(Sum([k \in 1..(n - 1) |-> Gap(series, k)]), n - 1)

\* C22 amended: the same, the statistics being reported in hours: the number
\* of gaps is count - 1, and the mean, the smallest and the largest gap are
\* those of the differences of consecutive timestamps divided by 3600 s.
C22_StatisticsOverConsecutiveGaps ==
    pc = "describe_arrival_times" =>
        LET series == locals.arrival_series
            n == Len(series)
        IN IF n < 2 THEN ret = <<>>
           ELSE /\ ret.count = n - 1
                /\ \A k \in 1..(n - 1) :
                      /\ Gap(series, k) >= 0
                      /\ ret.min[1] * 3600 <= Gap(series, k) * ret.min[2]
                      /\ Gap(series, k) * ret.max[2] <= ret.max[1] * 3600
                /\ \E k \in 1..(n - 1) : ret.min = Fraction(Gap(series, k), 3600)
                /\ \E k \in 1..(n - 1) : ret.max = Fraction(Gap(series, k), 3600)
                /\ ret.mean = Fraction(Sum([k \in 1..(n - 1) |-> Gap(series, k)]),
                                       (n - 1) * 3600)

\* Arrivals at 0 s, 100 s and 300 s, found in another order in the table:
\* the gaps are 100 s and 200 s and their mean is 150 s, 1/24 of an hour
C22_Witness ==
    /\ pc = "describe_arrival_times"
    /\ [k \in 1..Len(locals.arrival_series) |-> locals.arrival_series[k].ts]
           = <<(<<0>>), (<<100>>), (<<300>>)>>
    /\ df[1].ts = <<300>>
    /\ ret.count = 2
    /\ ret.min = Fraction(100, 3600)
    /\ ret.max = Fraction(200, 3600)
    /\ ret.mean = Fraction(150, 3600)

----------------------------------------------------------------------------
(* The coverage of the top variants *)

\* The case ids of the table
CaseIds == {df[i].case : i \in 1..Len(df)}

\* The trace of bare activities of case c, its rows being in timestamp order
TraceOf(c) == GroupSeries(df, ACTIVITY_COLUMN, c)

\* The list is the variant index of the table, by descending count: one
\* entry per distinct trace, with the number of cases that have the trace
IsVariantIndex(variant_counts) ==
    /\ {variant_counts[k][1] : k \in 1..Len(variant_counts)} = {TraceOf(c) : c \in CaseIds}
    /\ \A k \in 1..Len(variant_counts) :
          variant_counts[k][2] =
              Cardinality({c \in CaseIds : TraceOf(c) = variant_counts[k][1]})
    /\ \A j, k \in 1..Len(variant_counts) :
          j < k => /\ variant_counts[j][2] >= variant_counts[k][2]
                   /\ variant_counts[j][1] # variant_counts[k][1]

\* The sum of the counts of the first n variants of the list
TopSum(variant_counts, n) ==
    Sum([k \in 1..(IF n <= Len(variant_counts) THEN n ELSE Len(variant_counts)) |->
            variant_counts[k][2]])

\* C23 as stated: coverage(n) is the fraction (sum of the counts of the first
\* n variants of the count-descending list) / (total number of cases), 2/3
\* for the top variant of two of three cases.
C23_CoverageIsFraction ==
    /\ pc = "print_most_used_variants" =>
          /\ IsVariantIndex(ret)
          /\ \A n \in DOMAIN locals.statistics.coverage :
                locals.statistics.coverage[n] = Fraction(TopSum(ret, n), Cardinality(CaseIds))
    /\ pc = "compute_variants" =>
          /\ IsVariantIndex(ret)
          /\ locals.report.top_coverage # <<>> =>
                locals.report.top_coverage[1] = Fraction(TopSum(ret, 1), Cardinality(CaseIds))

\* C23 amended: coverage(n) is that fraction as a percentage, 100 * (sum of
\* the counts of the first n variants) / (total number of cases), 66.67 for
\* the top variant of two of three cases; it is computed for n = 1, 5, 10,
\* 20, 50 and 100, and for n = 1 alone by variants_lifecycle_analysis.
C23_CoverageIsPercentage ==
    /\ pc = "print_most_used_variants" =>
          /\ IsVariantIndex(ret)
          /\ DOMAIN locals.statistics.coverage = COVERAGE_TOP_NS
          /\ \A n \in COVERAGE_TOP_NS :
                locals.statistics.coverage[n] =
                    Fraction(100 * TopSum(ret, n), Cardinality(CaseIds))
    /\ pc = "compute_variants" =>
          /\ IsVariantIndex(ret)
          /\ df # <<>> =>
                locals.report.top_coverage =
                    <<Fraction(100 * TopSum(ret, 1), Cardinality(CaseIds))>>

\* The cases C1 = [A, B], C2 = [A, B], C3 = [A]: the top variant is (A, B)
\* with count 2, the second (A) with count 1, and the top variant covers
\* 200/3 percent of the cases
C23_Witness ==
    /\ pc = "print_most_used_variants"
    /\ df = TraceTable(<<(<<CREATE_ACTIVITY, A_CONCEPT_ACTIVITY>>),
                         (<<CREATE_ACTIVITY, A_CONCEPT_ACTIVITY>>),
                         (<<CREATE_ACTIVITY>>)>>)
    /\ ret = <<(<<(<<CREATE_ACTIVITY, A_CONCEPT_ACTIVITY>>), 2>>),
               (<<(<<CREATE_ACTIVITY>>), 1>>)>>
    /\ locals.statistics.coverage[1] = <<200, 3>>
    /\ locals.statistics.coverage[5] = <<100, 1>>

\* The same cases in variants_lifecycle_analysis
C23_WitnessLifecycle ==
    /\ pc = "compute_variants"
    /\ Len(ret) = 2
    /\ ret[1][2] = 2 /\ ret[2][2] = 1
    /\ locals.report.top_coverage = <<(<<200, 3>>)>>

----------------------------------------------------------------------------
(* Singletons and tail of the variant index *)

\* The distinct traces of the table
Variants == {TraceOf(c) : c \in CaseIds}

\* The number of cases with the trace
VariantCount(v) == Cardinality({c \in CaseIds : TraceOf(c) = v})

\* C24: the singleton count is the number of variants of the table with
\* exactly one case and the tail count of a threshold (5, 10, 20) is the
\* number of variants with at most that many cases, counted over all the
\* variants and not only over the top 20 that are printed.
C24_SingletonsAndTailOverAllVariants ==
    pc = "print_most_used_variants" =>
        /\ locals.statistics.unique_only =
               Cardinality({v \in Variants : VariantCount(v) = 1})
        /\ DOMAIN locals.statistics.tail_count = TAIL_THRESHOLDS
        /\ \A threshold \in TAIL_THRESHOLDS :
              locals.statistics.tail_count[threshold] =
                  Cardinality({v \in Variants : VariantCount(v) <= threshold})

\* More than 20 variants, one of them with more than 5 cases: the variants
\* beyond the top 20 are counted and the frequent one is not in the tail of 5
C24_Witness ==
    /\ pc = "print_most_used_variants"
    /\ Len(ret) > 20
    /\ ret[1][2] > 5
    /\ locals.statistics.unique_only = Len(ret) - 1
    /\ locals.statistics.tail_count[5] = Len(ret) - 1
    /\ locals.statistics.tail_count[10] = Len(ret)

\* Few variants: one of two cases and one of a single case
C24_WitnessSmall ==
    /\ pc = "print_most_used_variants"
    /\ Len(ret) = 2
    /\ ret[1][2] = 2
    /\ locals.statistics.unique_only = 1
    /\ locals.statistics.tail_count[5] = 2

----------------------------------------------------------------------------
(* The smoothing of the bucket counts *)

\* A plot was drawn
Plotted == pc \in {"plot_arrival_counts", "plot_arrival_rate"} /\ ret # <<>>

\* The smoothed sequence of the plot: the trend line when one is drawn, else
\* the line of the counts
Smoothed == ret[Len(ret)]

\* The window of the smoothing, in buckets; without a window (0) each bucket
\* stands for itself
Window == IF args.rolling_window >= 1 THEN args.rolling_window ELSE 1

\* C25: the smoothed value at a bucket is the mean of the counts of that
\* bucket and the buckets before it, Window buckets at most and never a
\* later one; the smoothed sequence is as long as the bucket sequence; with
\* a window of 1 it equals the counts.
C25_TrailingMovingAverage ==
    Plotted =>
        LET counts == locals.arrival_counts
        IN /\ Len(Smoothed) = Len(counts)
           /\ \A i \in 1..Len(counts) :
                 LET from == IF i - Window + 1 >= 1 THEN i - Window + 1 ELSE 1
                     total == Sum([b \in 1..(i - from + 1) |-> counts[from + b - 1].new_cases])
                 IN /\ Smoothed[i][2] > 0
                    /\ Smoothed[i][1] * (i - from + 1) = total * Smoothed[i][2]
           /\ Window = 1 =>
                 \A i \in 1..Len(counts) : Smoothed[i] = <<counts[i].new_cases, 1>>
           /\ Len(ret) = (IF Window > 1 THEN 2 ELSE 1)
           /\ \A i \in 1..Len(counts) : ret[1][i] = <<counts[i].new_cases, 1>>

\* A window of two buckets over the counts 1, 0, 1: the trend is 1, 1/2, 1/2
C25_Witness ==
    /\ pc = "plot_arrival_rate"
    /\ args.rolling_window = 2
    /\ [b \in 1..Len(locals.arrival_counts) |-> locals.arrival_counts[b].new_cases]
           = <<1, 0, 1>>
    /\ ret[2] = <<(<<1, 1>>), (<<1, 2>>), (<<1, 2>>)>>

\* A window of one bucket: the counts alone are drawn
C25_WitnessWindowOne ==
    /\ pc = "plot_arrival_rate"
    /\ args.rolling_window = 1
    /\ Len(locals.arrival_counts) >= 3
    /\ Len(ret) = 1

\* The window that plot_arrival_counts chooses for more than five buckets
C25_WitnessChosenWindow ==
    /\ pc = "plot_arrival_counts"
    /\ Len(locals.arrival_counts) > 5
    /\ args.rolling_window = 2
    /\ Len(ret) = 2
    /\ \E i \in 2..Len(ret[2]) : ret[2][i] = <<1, 2>>

----------------------------------------------------------------------------
(* The mean gap and the average inter-arrival time *)

\* The summary was written for a series of two or more arrivals
Summarized ==
    pc = "write_summary" /\ ~locals.exited /\ Len(locals.arrival_series) >= 2

\* The gaps of the sorted series are not negative and add up to the time
\* from the first to the last arrival
GapsTelescope(series) ==
    /\ \A k \in 1..(Len(series) - 1) : Gap(series, k) >= 0
    /\ Sum([k \in 1..(Len(series) - 1) |-> Gap(series, k)])
           = series[Len(series)].ts[1] - series[1].ts[1]

\* C26 as stated: for a series of two or more arrivals the gaps are not
\* negative and add up to last - first, and the mean of the gaps that the
\* gap statistics report equals the average inter-arrival time
\* (last - first) / (count - 1).
C26_MeanGapEqualsAverage ==
    Summarized =>
        /\ GapsTelescope(locals.arrival_series)
        /\ ret.arrival_average_seconds =
               Fraction(locals.arrival_series[Len(locals.arrival_series)].ts[1]
                            - locals.arrival_series[1].ts[1],
                        Len(locals.arrival_series) - 1)
        /\ ret.stats.mean = ret.arrival_average_seconds

\* C26 amended: the same, the two being the same length of time in different
\* units: the reported mean of the gaps is in hours and the average
\* inter-arrival time in seconds, so mean * 3600 equals the average.
C26_MeanGapInHoursIsAverageInSeconds ==
    Summarized =>
        /\ GapsTelescope(locals.arrival_series)
        /\ ret.arrival_average_seconds =
               Fraction(locals.arrival_series[Len(locals.arrival_series)].ts[1]
                            - locals.arrival_series[1].ts[1],
                        Len(locals.arrival_series) - 1)
        /\ ret.stats.mean[2] > 0 /\ ret.arrival_average_seconds[2] > 0
        /\ ret.stats.mean[1] * 3600 * ret.arrival_average_seconds[2]
               = ret.arrival_average_seconds[1] * ret.stats.mean[2]

\* Arrivals at 0 s, 100 s and 300 s: the average is 150 s and the reported
\* mean of the unequal gaps is 1/24 h
C26_Witness ==
    /\ Summarized
    /\ Len(locals.arrival_series) = 3
    /\ Gap(locals.arrival_series, 1) = 100
    /\ Gap(locals.arrival_series, 2) = 200
    /\ ret.arrival_average_seconds = <<150, 1>>
    /\ ret.stats.mean = <<1, 24>>

----------------------------------------------------------------------------
(* The two cohort selectors *)

\* C27: given the same create activity and the same exclusion set, the
\* cases kept by select_active_create_cases are the cases returned by
\* select_open_cases, on every table, rows with a null activity included;
\* the rows that select_active_create_cases returns are the rows of these
\* cases.
C27_SelectorsAgree ==
    /\ (pc = "select_active_create_cases"
           /\ args.create_activity = CREATE_ACTIVITY
           /\ args.excluded_states = EXCLUSION_ACTIVITIES) =>
          /\ locals.eligible_cases = Range(select_open_cases(df))
          /\ {ret[k].case : k \in 1..Len(ret)} = Range(select_open_cases(df))
    /\ pc = "select_open_cases" =>
          Range(ret) =
              select_active_create_cases(df, args.create_activity,
                                         args.excluded_states).eligible_cases

\* A case with the create activity and a null activity is kept, a case with
\* the create activity and an excluded one is not
C27_Witness ==
    /\ pc = "select_open_cases"
    /\ ret = <<1>>
    /\ \E i, j \in CaseRows(df, 1) :
          df[i].activity = CREATE_ACTIVITY /\ df[j].activity = NA
    /\ \E i, j \in CaseRows(df, 2) :
          df[i].activity = CREATE_ACTIVITY /\ df[j].activity = "A_Cancelled"

\* The same table through select_active_create_cases
C27_WitnessActive ==
    /\ pc = "select_active_create_cases"
    /\ args.excluded_states = EXCLUSION_ACTIVITIES
    /\ locals.eligible_cases = {1}
    /\ \E i \in CaseRows(df, 1) : df[i].activity = NA
    /\ \E i, j \in CaseRows(df, 2) :
          df[i].activity = CREATE_ACTIVITY /\ df[j].activity = "A_Cancelled"

----------------------------------------------------------------------------
(* The two attribute classifiers *)

\* C28: analyze_attribute_constancy and classify_attribute_level return the
\* same percent_constant for the same table and column; is_constant holds
\* exactly when percent_constant is 100, and then the level is "case";
\* is_case_level holds exactly when the level is "case" or "mostly_case",
\* which for a column other than the case id is percent_constant >= 50.
C28_ClassifiersAgree ==
    /\ pc = "analyze_attribute_constancy" =>
          LET other == classify_attribute_level(df, args.column, CASE_ID_COLUMN)
          IN /\ ret.percent_constant = other.percent_constant
             /\ ret.is_constant <=> ret.percent_constant = <<100, 1>>
             /\ ret.is_constant => (other.level = "case" /\ other.is_case_level)
    /\ pc \in {"classify_attribute_level", "attribute_visualizations_main"} =>
          LET other == analyze_attribute_constancy(df, args.column)
          IN /\ ret.percent_constant = other.percent_constant
             /\ other.is_constant => ret.level = "case"
             /\ ret.is_case_level <=> ret.level \in {"case", "mostly_case"}
             /\ args.column # CASE_ID_COLUMN =>
                   (ret.is_case_level <=>
                        ret.percent_constant[1] >= 50 * ret.percent_constant[2])

\* Every case is constant, one of them without a value: constant, 100, "case"
C28_Witness ==
    /\ pc = "analyze_attribute_constancy"
    /\ args.column = RESOURCE_COLUMN
    /\ ret.is_constant
    /\ ret.percent_constant = <<100, 1>>
    /\ ret.total_cases >= 2
    /\ \E c \in {df[i].case : i \in 1..Len(df)} : NonNullCells(df, RESOURCE_COLUMN, c) = {}

\* Half of the cases are constant: not constant, "mostly_case", case-level
C28_WitnessMostly ==
    /\ pc = "classify_attribute_level"
    /\ args.column = RESOURCE_COLUMN
    /\ ret.percent_constant = <<50, 1>>
    /\ ret.level = "mostly_case"
    /\ ret.is_case_level
    /\ ~analyze_attribute_constancy(df, RESOURCE_COLUMN).is_constant

----------------------------------------------------------------------------
(* The arrivals in the buckets *)

\* The call was to compute bucket counts from at least one arrival
BucketingCalled ==
    /\ Operation \in {"aggregate_arrival_counts", "plot_arrival_counts", "plot_arrival_rate"}
    /\ locals.arrivals_df # <<>>

\* The start of the interval of a bucket of the frequency
BucketStart(freq, label) == IF freq = "W" THEN StartOfWeek(label) ELSE StartIsLabel(label)

\* The buckets in whose interval arrival k falls
BucketsOf(k) ==
    {b \in 1..Len(BucketCounts) :
        /\ locals.arrivals_df[k].ts # NaT
        /\ BucketStart(args.frequency, BucketCounts[b].bucket) <= ArrivalTime(k)
        /\ ArrivalTime(k) < BucketStart(args.frequency, BucketCounts[b].bucket)
                              + BucketWidth(args.frequency)}

\* Over the given arrivals, each is in exactly one bucket, the counts are
\* not negative and add up to the number of the arrivals, and the first and
\* the last bucket are not empty
Conserved(arrivals) ==
    /\ pc # "raised"
    /\ \A k \in arrivals : Cardinality(BucketsOf(k)) = 1
    /\ Sum(count_values(BucketCounts)) = Cardinality(arrivals)
    /\ \A b \in 1..Len(BucketCounts) : BucketCounts[b].new_cases >= 0
    /\ BucketCounts # <<>>
    /\ BucketCounts[1].new_cases >= 1
    /\ BucketCounts[Len(BucketCounts)].new_cases >= 1

\* C29 as stated: for every non-empty arrival series and bucket width each
\* arrival falls in exactly one bucket, the bucket counts add up to the
\* number of arrivals of the series, no count is negative and the first and
\* the last bucket each hold at least one arrival.
C29_NoArrivalLostOrDuplicated ==
    BucketingCalled => Conserved(1..Len(locals.arrivals_df))

\* The arrivals that have a timestamp are neither lost nor duplicated, when
\* there is one
TimedArrivalsConserved ==
    (BucketingCalled /\ ArrivalIndex # {}) => Conserved(ArrivalIndex)

\* Every arrival is without a timestamp exactly when the bucketing raises
RaisesWithoutTimestamps ==
    BucketingCalled => (pc = "raised" <=> ArrivalIndex = {})

\* Two arrivals, one of them without a timestamp: the buckets hold one
C29_Witness ==
    /\ pc = "aggregate_arrival_counts"
    /\ Len(locals.arrivals_df) = 2
    /\ Cardinality(ArrivalIndex) = 1
    /\ Sum(count_values(ret)) = 1

\* Buckets of three arrivals with timestamps, two in one bucket and a bucket
\* without arrivals between them and the third
TimedArrivalsBucketed ==
    /\ pc = "aggregate_arrival_counts"
    /\ Cardinality(ArrivalIndex) = 3
    /\ Len(locals.arrivals_df) = 3
    /\ \E b \in 1..Len(ret) : ret[b].new_cases = 2
    /\ \E b \in 1..Len(ret) : ret[b].new_cases = 0

\* No arrival has a timestamp and the bucketing raised
BucketingRaised ==
    /\ pc = "raised"
    /\ locals.operation = "plot_arrival_rate"
    /\ locals.arrivals_df # <<>>

----------------------------------------------------------------------------
(* Coverage and tail as functions of n and of the threshold *)

\* The summary statistics were reported for a variant index with variants
StatisticsReported == pc = "print_most_used_variants" /\ ret # <<>>

\* The coverage expression of main, (top_n_count / total_cases) * 100, at n
CoverageAt(n) == percentage(top_n_count(ret, n), locals.report.total_cases)

\* The tail expression of main, the number of variants with count <= threshold
TailCountAt(threshold) == Cardinality({k \in 1..Len(ret) : ret[k][2] <= threshold})

\* a <= b for fractions with positive denominators
FractionLeq(a, b) == a[1] * b[2] <= b[1] * a[2]

\* The values of n and of the threshold looked at: every one up to beyond the
\* number of variants and the largest count, and the reported ones
CoverageNs == 0..(Len(ret) + 1) \cup COVERAGE_TOP_NS

TailThresholds == 0..(ret[1][2] + 1) \cup TAIL_THRESHOLDS

\* What is reported is the expressions at the reported n and thresholds;
\* coverage does not decrease in n and is 0 at n = 0 and the given value
\* for every n >= the number of variants; the tail count does not decrease
\* in the threshold and is the number of variants from the largest count
\* on; the singleton count is the tail count of 1
CoverageAndTailMonotone(full) ==
    /\ \A n \in COVERAGE_TOP_NS : locals.statistics.coverage[n] = CoverageAt(n)
    /\ \A t \in TAIL_THRESHOLDS : locals.statistics.tail_count[t] = TailCountAt(t)
    /\ \A m, n \in CoverageNs : m <= n => FractionLeq(CoverageAt(m), CoverageAt(n))
    /\ CoverageAt(0) = <<0, 1>>
    /\ \A n \in CoverageNs : n >= Len(ret) => CoverageAt(n) = full
    /\ \A t, u \in TailThresholds : t <= u => TailCountAt(t) <= TailCountAt(u)
    /\ \A t \in TailThresholds : t >= ret[1][2] => TailCountAt(t) = Len(ret)
    /\ locals.statistics.unique_only = TailCountAt(1)

\* C30 as stated: over a non-empty variant index coverage(n) is
\* non-decreasing in n, coverage(0) = 0 and coverage(n) = 1 for every n >= the
\* number of variants; tail_count(t) is non-decreasing in t and equals the
\* number of variants for t >= the largest count; singleton_count() =
\* tail_count(1).
C30_CoverageReachesOne ==
    StatisticsReported => CoverageAndTailMonotone(<<1, 1>>)

\* C30 amended: the same with coverage as a percentage, which reaches 100
\* (not 1) for every n >= the number of variants.
C30_CoverageReachesHundred ==
    StatisticsReported => CoverageAndTailMonotone(<<100, 1>>)

\* More variants than 20 and a top variant of more than 5 cases: coverage
\* grows from n = 1 to n = 20 and is full at n = 50, the tail of 5 leaves the
\* top variant out and the tail of 10 holds every variant
C30_Witness ==
    /\ StatisticsReported
    /\ Len(ret) > 20
    /\ ret[1][2] > 5
    /\ CoverageAt(1) # CoverageAt(5)
    /\ CoverageAt(10) # CoverageAt(20)
    /\ CoverageAt(20) # <<100, 1>>
    /\ locals.statistics.coverage[50] = <<100, 1>>
    /\ TailCountAt(5) = Len(ret) - 1
    /\ TailCountAt(10) = Len(ret)
    /\ locals.statistics.unique_only = Len(ret) - 1

\* Three variants of 3, 2 and 1 cases: one singleton, the tail grows with the
\* threshold up to the largest count, and the top 5 cover every case
C30_WitnessSmall ==
    /\ StatisticsReported
    /\ Len(ret) = 3
    /\ ret[1][2] = 3 /\ ret[2][2] = 2 /\ ret[3][2] = 1
    /\ TailCountAt(1) = 1 /\ TailCountAt(2) = 2 /\ TailCountAt(3) = 3
    /\ CoverageAt(1) = <<50, 1>>
    /\ CoverageAt(3) = <<100, 1>>
    /\ locals.statistics.coverage[5] = <<100, 1>>

====
